---- MODULE Spec2Model ----
(***************************************************************************)
(* Model of the BTU OBS notification bot: the grade diff                   *)
(* (obs_scraper.get_new_grades), one scheduled run                         *)
(* (main.check_for_new_grades) with its cache file and Telegram channel,   *)
(* and the captcha / login pipeline of OBSSession.                         *)
(***************************************************************************)
EXTENDS Integers, Sequences, FiniteSets, TLC

\* ------------------------------------------------------------------ bounds
\* longest previous (cached) snapshot drawn for the diff
MaxPrev == 2
\* longest current snapshot drawn for the diff
MaxCur == 2

\* ------------------------------------------------------------ grade records
\* course codes and grade strings that occur in the drawn snapshots; "" is the
\* grade of a course whose result is not announced yet, "72" and "72.0" are two
\* spellings of one number
Codes == {"BLM207", "MAT101"}
Grades == {"", "AA", "72", "72.0"}
GradeRecord == [course_code : Codes, grade : Grades]

SeqsUpTo(S, n) == UNION {[1..k -> S] : k \in 0..n}

\* Python's dict.get(key) on a missing key
None == "None"

\* ------------------------------------------------- obs_scraper.get_new_grades
\* a lookup in which the first graded record of a code wins
RECURSIVE BuildLookup_FirstWins(_, _)
BuildLookup_FirstWins(cached_grades, cached_lookup) ==
    IF cached_grades = <<>> THEN cached_lookup
    ELSE LET g == Head(cached_grades)
             next == IF g.grade # "" /\ g.course_code \notin DOMAIN cached_lookup
                     THEN [k \in DOMAIN cached_lookup \cup {g.course_code} |->
                              IF k = g.course_code THEN g.grade ELSE cached_lookup[k]]
                     ELSE cached_lookup
         IN  BuildLookup_FirstWins(Tail(cached_grades), next)

\* cached_lookup after the first loop: a dict from course_code to grade, a later
\* record with a grade overwriting an earlier one of the same code
RECURSIVE BuildLookup(_, _)
BuildLookup(cached_grades, cached_lookup) ==
    IF cached_grades = <<>> THEN cached_lookup
    ELSE LET g == Head(cached_grades)
             next == IF g.grade # ""
                     THEN [k \in DOMAIN cached_lookup \cup {g.course_code} |->
                              IF k = g.course_code THEN g.grade ELSE cached_lookup[k]]
                     ELSE cached_lookup
         IN  BuildLookup(Tail(cached_grades), next)

\* cached_lookup.get(key)
LookupGet(cached_lookup, key) ==
    IF key \in DOMAIN cached_lookup THEN cached_lookup[key] ELSE None

\* a scan without the "if not current_grade: continue"
RECURSIVE ScanCurrent_KeepsUngraded(_, _)
ScanCurrent_KeepsUngraded(cached_lookup, current_grades) ==
    IF current_grades = <<>> THEN <<>>
    ELSE LET grade == Head(current_grades)
             cached_grade == LookupGet(cached_lookup, grade.course_code)
             rest == ScanCurrent_KeepsUngraded(cached_lookup, Tail(current_grades))
         IN  IF cached_grade = None \/ cached_grade # grade.grade
             THEN <<grade>> \o rest
             ELSE rest

\* a scan without the "cached_grade is None" case: changed grades only
RECURSIVE ScanCurrent_ChangedOnly(_, _)
ScanCurrent_ChangedOnly(cached_lookup, current_grades) ==
    IF current_grades = <<>> THEN <<>>
    ELSE LET grade == Head(current_grades)
             cached_grade == LookupGet(cached_lookup, grade.course_code)
             rest == ScanCurrent_ChangedOnly(cached_lookup, Tail(current_grades))
         IN  IF grade.grade = "" THEN rest
             ELSE IF cached_grade # None /\ cached_grade # grade.grade
                  THEN <<grade>> \o rest
                  ELSE rest

\* the second loop: the records of current_grades appended to new_grades
RECURSIVE ScanCurrent(_, _)
ScanCurrent(cached_lookup, current_grades) ==
    IF current_grades = <<>> THEN <<>>
    ELSE LET grade == Head(current_grades)
             cached_grade == LookupGet(cached_lookup, grade.course_code)
             rest == ScanCurrent(cached_lookup, Tail(current_grades))
         IN  IF grade.grade = "" THEN rest
             ELSE IF cached_grade = None \/ cached_grade # grade.grade
                  THEN <<grade>> \o rest
                  ELSE rest

get_new_grades(cached_grades, current_grades) ==
    ScanCurrent(BuildLookup(cached_grades, <<>>), current_grades)

\* ------------------------------------------------------- the cache file
\* longest snapshot fetch_grades returns in a run
MaxRows == 2

\* what the portal's table can hold in a run
PortalGrades == {"", "AA", "72"}
PortalRecord == [course_code : Codes, grade : PortalGrades]

\* a parsed JSON value: a list of grade records, or a value of another shape
\* (a number such as 5, which cannot be iterated)
JsonList(items) == [shape |-> "list", items |-> items]
JsonNumber == [shape |-> "number", items |-> <<>>]

\* config.CACHE_FILE on disk: absent, not openable (IOError), not UTF-8
\* (UnicodeDecodeError), not JSON (JSONDecodeError), or holding a JSON value
FileMissing == [kind |-> "missing", value |-> JsonList(<<>>)]
FileUnreadable == [kind |-> "unreadable", value |-> JsonList(<<>>)]
FileUndecodable == [kind |-> "undecodable", value |-> JsonList(<<>>)]
FileInvalidJson == [kind |-> "invalid_json", value |-> JsonList(<<>>)]
FileJson(v) == [kind |-> "json", value |-> v]

Return(v) == [raised |-> FALSE, value |-> v]
Raise == [raised |-> TRUE, value |-> JsonList(<<>>)]

\* main.load_cache: json.load's value as it is; JSONDecodeError and IOError
\* are caught and give [], any other exception leaves the function
load_cache(file) ==
    CASE file.kind = "missing" -> Return(JsonList(<<>>))
      [] file.kind = "json" -> Return(file.value)
      [] file.kind \in {"invalid_json", "unreadable"} -> Return(JsonList(<<>>))
      [] OTHER -> Raise

\* main.save_cache: the file after json.dump(grades), or the old file when
\* open() raises IOError (caught)
save_cache(file, grades, io_ok) ==
    IF io_ok THEN FileJson(JsonList(grades)) ELSE file

\* saving the diff instead of the snapshot
CacheContent_DiffOnly(current_grades, new_grades) == new_grades

\* the argument check_for_new_grades passes to save_cache
CacheContent(current_grades, new_grades) == current_grades

\* a run that goes on with an empty fetch
FetchedNothing_Never(current_grades) == FALSE

\* "if not current_grades" in check_for_new_grades
FetchedNothing(current_grades) == current_grades = <<>>

\* what follows the send in check_for_new_grades: save_cache is called
\* whatever send_multiple_grades_notification returned
AfterNotify(sent) == "save"

\* ----------------------------------------------------------- telegram_bot
\* outcome of bot.send_message inside send_message_async
SendOutcomes == {"sent", "telegram_error", "other_error"}

\* telegram_bot.send_message: True, False (TelegramError caught), or the
\* exception when it is no TelegramError
send_message(outcome) ==
    CASE outcome = "sent" -> [raised |-> FALSE, value |-> TRUE]
      [] outcome = "telegram_error" -> [raised |-> FALSE, value |-> FALSE]
      [] OTHER -> [raised |-> TRUE, value |-> FALSE]

\* ------------------------------------------------------------------ texts
\* a Python str is the sequence of its characters; an Optional[str] is a record
NoneStr == [is_none |-> TRUE, text |-> <<>>]
Some(t) == [is_none |-> FALSE, text |-> t]

\* Python's truth value of an Optional[str]: neither None nor ""
Truthy(opt) == ~opt.is_none /\ opt.text # <<>>

DigitChars == <<"0", "1", "2", "3", "4", "5", "6", "7", "8", "9">>
Digits == {DigitChars[i] : i \in DOMAIN DigitChars}
Whitespace == {" ", "\n", "\t"}

DigitVal(c) == (CHOOSE i \in DOMAIN DigitChars : DigitChars[i] = c) - 1

\* int(run) of a run of decimal digits
RECURSIVE ToInt(_)
ToInt(run) ==
    IF run = <<>> THEN 0
    ELSE 10 * ToInt(SubSeq(run, 1, Len(run) - 1)) + DigitVal(run[Len(run)])

RECURSIVE NatStr(_)
NatStr(n) ==
    IF n < 10 THEN <<DigitChars[n + 1]>>
    ELSE NatStr(n \div 10) \o <<DigitChars[(n % 10) + 1]>>

\* str(n) of an int
PyStr(n) == IF n < 0 THEN <<"-">> \o NatStr(0 - n) ELSE NatStr(n)

\* str.strip()
RECURSIVE Strip(_)
Strip(text) ==
    IF text = <<>> THEN text
    ELSE IF Head(text) \in Whitespace THEN Strip(Tail(text))
    ELSE IF text[Len(text)] \in Whitespace THEN Strip(SubSeq(text, 1, Len(text) - 1))
    ELSE text

\* re.findall(r'\d+', text), run being the digit run in progress
RECURSIVE FindDigitRuns(_, _)
FindDigitRuns(text, run) ==
    LET closed == IF run = <<>> THEN <<>> ELSE <<run>>
    IN  IF text = <<>> THEN closed
        ELSE IF Head(text) \in Digits
             THEN FindDigitRuns(Tail(text), Append(run, Head(text)))
             ELSE closed \o FindDigitRuns(Tail(text), <<>>)

\* re.sub(r'[^0-9]', '', text)
OnlyDigits(text) == SelectSeq(text, LAMBDA c : c \in Digits)

\* c in text
Contains(text, c) == \E i \in DOMAIN text : text[i] = c

\* the two-character string ab in text
ContainsPair(text, a, b) ==
    \E i \in 1..(Len(text) - 1) : text[i] = a /\ text[i + 1] = b

Min(S) == CHOOSE m \in S : \A x \in S : m <= x
Max(S) == CHOOSE m \in S : \A x \in S : x <= m

\* ------------------------------------------ OBSSession.solve_math_captcha
\* positions at which the merged numeral splits into two parts below 1000
GoodSplits_Below1000(num_str) ==
    {i \in 1..(Len(num_str) - 1) :
        /\ ToInt(SubSeq(num_str, 1, i)) < 1000
        /\ ToInt(SubSeq(num_str, i + 1, Len(num_str))) < 1000}

\* positions at which the merged numeral splits into two parts below 100
GoodSplits(num_str) ==
    {i \in 1..(Len(num_str) - 1) :
        /\ ToInt(SubSeq(num_str, 1, i)) < 100
        /\ ToInt(SubSeq(num_str, i + 1, Len(num_str))) < 100}

\* the operator chain with '-' tested before '+'
Operate_MinusFirst(text, num1, num2) ==
    IF Contains(text, "-") THEN num1 - num2
    ELSE IF Contains(text, "+") THEN num1 + num2
    ELSE IF Contains(text, "*") \/ Contains(text, "x") \/ Contains(text, "X")
         THEN num1 * num2
    ELSE num1 + num2

\* the if/elif chain that determines the operator and computes result
Operate(text, num1, num2) ==
    IF Contains(text, "+") THEN num1 + num2
    ELSE IF Contains(text, "-") THEN num1 - num2
    ELSE IF Contains(text, "*") \/ Contains(text, "x") \/ Contains(text, "X")
         THEN num1 * num2
    ELSE num1 + num2

solve_math_captcha(captcha_text) ==
    LET text == Strip(captcha_text)
        numbers == FindDigitRuns(text, <<>>)
    IN  IF Len(numbers) >= 2
        THEN Some(PyStr(Operate(text, ToInt(numbers[1]), ToInt(numbers[2]))))
        ELSE IF Len(numbers) = 1 /\ GoodSplits(numbers[1]) # {}
        THEN LET num_str == numbers[1]
                 i == Min(GoodSplits(num_str))
             IN  Some(PyStr(ToInt(SubSeq(num_str, 1, i))
                            + ToInt(SubSeq(num_str, i + 1, Len(num_str)))))
        ELSE NoneStr

\* longest text drawn as the argument of solve_math_captcha
MaxTextLen == 4

\* the characters the drawn texts are made of
SolveAlphabet == {"0", "2", "5", "+", "-", "*", "x", "X", "="}

\* the texts of the docstring and of the comments, longer than MaxTextLen
SolveExamples ==
    { <<"6", "1", "+", "8", "=", "?">>,
      <<"4", "2", "-", "5">>,
      <<" ", "1", "2", "-", "4", "=", "?", "\n">>,
      <<"7", "5", "2", "5">>,
      <<"1", "2", "3", "4", "5">> }

\* ------------------------------- score_result in OBSSession._get_captcha_answer
score_result(text) ==
    LET nums == FindDigitRuns(text, <<>>)
        operator == IF Contains(text, "+") THEN 15
                    ELSE IF Contains(text, "-") THEN 12 ELSE 0
        equals == IF ContainsPair(text, "=", "?") THEN 10
                  ELSE IF Contains(text, "=") THEN 5 ELSE 0
        small == IF Len(nums) >= 2
                    /\ \A k \in 1..2 : 1 <= ToInt(nums[k]) /\ ToInt(nums[k]) < 200
                 THEN 8 ELSE 0
        two_digits == IF Len(nums) >= 2 /\ Len(nums[1]) >= 2 THEN 3 ELSE 0
        single == IF Len(nums) < 2 THEN 0 - 10 ELSE 0
        long == IF Len(text) > 12 THEN 0 - 5 ELSE 0
        short == IF Len(text) < 4 THEN 0 - 5 ELSE 0
    IN  operator + equals + small + two_digits + single + long + short

\* scored_results[0][0]: results = list(set(...)) has no defined order and the
\* sort by score is stable, so any reading of the highest score can come first
BestReadings(results) ==
    {r \in results : \A q \in results : score_result(q) <= score_result(r)}

\* ------------------------------ the answer of _solve_captcha_with_gemini
\* the stripped response text as it is, not reduced to its digits
gemini_answer_Unfiltered(response_text) ==
    IF Strip(response_text) # <<>> THEN Some(Strip(response_text)) ELSE NoneStr

\* from response.text: the digits of the stripped text, None when none is left
gemini_answer(response_text) ==
    LET answer == OnlyDigits(Strip(response_text))
    IN  IF response_text # <<>> /\ answer # <<>> THEN Some(answer) ELSE NoneStr

\* ------------------------------------ OBSSession._try_multiple_ocr_approaches
\* most texts the OCR sweep is drawn to return in one solve
MaxReadings == 2

\* texts tesseract can return for one preprocessed image
RawOcrTexts ==
    { <<"6", "1", "+", "8", "=", "?", "\n">>,
      <<"=", "4", "2", "-", "5", " ">>,
      <<"7", "5", "2", "5">>,
      <<"1", "2", "3", "4", "5">>,
      <<"5", "-", "4", "2">>,
      <<"?", "=">> }

OcrCharset == Digits \cup {"+", "-", "=", "?"}

\* re.sub(r'^[^0-9]*', '', text)
RECURSIVE DropLeadingNonDigits(_)
DropLeadingNonDigits(text) ==
    IF text = <<>> \/ Head(text) \in Digits THEN text
    ELSE DropLeadingNonDigits(Tail(text))

\* re.sub(r'[^0-9+\-=?]*$', '', text)
RECURSIVE DropTrailingJunk(_)
DropTrailingJunk(text) ==
    IF text = <<>> \/ text[Len(text)] \in OcrCharset THEN text
    ELSE DropTrailingJunk(SubSeq(text, 1, Len(text) - 1))

\* the text as cleaned before it is appended to results
CleanReading(raw) ==
    DropTrailingJunk(DropLeadingNonDigits(
        SelectSeq(Strip(raw), LAMBDA c : c \notin {" ", "\n"})))

\* list(set(results)): the cleaned texts that are non-empty and hold a digit
OcrResults(raw_texts) ==
    {t \in {CleanReading(raw_texts[i]) : i \in DOMAIN raw_texts} :
        t # <<>> /\ \E i \in DOMAIN t : t[i] \in Digits}

\* -------------------------------------- OBSSession._solve_captcha_with_gemini
\* len(models_to_try)
NumModels == 9
\* max_gemini_retries
MaxGeminiRetries == 2

\* texts a vision model can answer with
VisionTexts ==
    { <<>>,
      <<"6", "9">>,
      <<" ", "6", "9", "\n">>,
      <<"=", " ", "4", "2">>,
      <<"a", "b">> }

\* the same model is called again after any failure of its first call
AfterVisionFailure_AnyFailure(i, rate_limited) ==
    IF i < MaxGeminiRetries - 1 THEN "retry" ELSE "next_model"

\* the except branch of the retry loop: wait and call the same model again
\* on a 429 that is not the last permitted call, else give the model up
AfterVisionFailure(i, rate_limited) ==
    IF rate_limited /\ i < MaxGeminiRetries - 1 THEN "retry" ELSE "next_model"

\* wait_time = 5 * (i + 1)
WaitTime(i) == 5 * (i + 1)

\* if response: break -- any response object ends the search over the models
EndsSearch(response_text) == TRUE

\* -------------------------------------------- OBSSession._get_captcha_answer
\* the vision tier came back with None and the solve ends there
AfterVisionTier_ReturnsNone(answer) == "return"

\* answer = self._solve_captcha_with_gemini(image); if answer: return answer;
\* otherwise the code falls through to the OCR tier
AfterVisionTier(answer) == IF Truthy(answer) THEN "return" ELSE "ocr"

\* an exception under the try is swallowed: the catch-all except returns None
CaptchaOnException_Propagates == [raised |-> TRUE, value |-> NoneStr]

\* except Exception: return None
CaptchaOnException == [raised |-> FALSE, value |-> NoneStr]

\* ------------------------------------------------------- OBSSession.login
\* default of max_retries
DefaultMaxRetries == 5

\* time.sleep(2) after every failed attempt, the last one too
SleepBetween_Always(attempt, max_retries) == TRUE

\* if attempt < max_retries: time.sleep(2)
SleepBetween(attempt, max_retries) == attempt < max_retries

\* ------------------------------------ OBSSession._preprocess_captcha_image
\* an image is its size and its pixels, px[<<x, y>>] for x in 1..w, y in 1..h:
\* an RGB triple in an RGB image, a number in 0..255 in an image of mode L
\* largest width and height of the drawn input images
MaxSide == 2

\* the factor of image.resize((width * 4, height * 4), ...)
ScaleFactor == 4

\* colours of a captcha: white paper, black and gray strokes, a red dot
Colours == {<<255, 255, 255>>, <<0, 0, 0>>, <<128, 128, 128>>, <<255, 0, 0>>}

\* thresholds = [90, 110, 128, 150, 180] of the sweep that calls the function
Thresholds == {90, 110, 128, 150, 180}

Pixels(w, h) == (1..w) \X (1..h)

\* input images: a one-colour background with one pixel of a second colour
InputImages ==
    {[w |-> w, h |-> h,
      px |-> [p \in Pixels(w, h) |-> IF p = dot THEN colour ELSE paper]] :
        <<w, h, dot, colour, paper>> \in
            {t \in (1..MaxSide) \X (1..MaxSide) \X Pixels(MaxSide, MaxSide)
                    \X Colours \X Colours : t[3] \in Pixels(t[1], t[2])}}

\* Pillow's RGB to L: the ITU-R 601-2 luma transform in 16-bit fixed point
Luminance(rgb) == (rgb[1] * 19595 + rgb[2] * 38470 + rgb[3] * 7471 + 32768) \div 65536

\* image.convert('L'), a new image
ConvertL(image) ==
    [w |-> image.w, h |-> image.h,
     px |-> [p \in Pixels(image.w, image.h) |-> Luminance(image.px[p])]]

Clamp(v, lo, hi) == IF v < lo THEN lo ELSE IF v > hi THEN hi ELSE v

\* the 3x3 window of a rank filter around p; Pillow expands the image by one
\* pixel on each side with copies of its border pixels
Window(image, p) ==
    [o \in {-1, 0, 1} \X {-1, 0, 1} |->
        image.px[<<Clamp(p[1] + o[1], 1, image.w), Clamp(p[2] + o[2], 1, image.h)>>]]

\* the k-th smallest of the nine values of a window
Ranked(win, k) ==
    CHOOSE v \in {win[o] : o \in DOMAIN win} :
        /\ Cardinality({o \in DOMAIN win : win[o] < v}) < k
        /\ Cardinality({o \in DOMAIN win : win[o] <= v}) >= k

\* image.filter(RankFilter(3, k - 1)), a new image of the same size
RankFilter(image, k) ==
    [w |-> image.w, h |-> image.h,
     px |-> [p \in Pixels(image.w, image.h) |-> Ranked(Window(image, p), k)]]

\* ImageFilter.MedianFilter(size=3), MaxFilter(size=3), MinFilter(size=3)
MedianFilter(image) == RankFilter(image, 5)
MaxFilter(image) == RankFilter(image, 9)
MinFilter(image) == RankFilter(image, 1)

\* what the Lanczos kernel adds to a replicated pixel: nothing on a flat
\* area, over- or undershoot on alternate pixels near an edge
RingingPatterns == {"flat", "overshoot", "undershoot"}
Ringing(pattern, p) ==
    IF pattern = "flat" \/ (p[1] + p[2]) % 2 = 1 THEN 0
    ELSE IF pattern = "overshoot" THEN 30 ELSE 0 - 30

\* image.resize((width * 4, height * 4), Image.Resampling.LANCZOS): the size
\* is exact; the resampled values are the replicated source pixels with the
\* ringing of the pattern, clipped to 0..255
Resize(image, pattern) ==
    [w |-> image.w * ScaleFactor, h |-> image.h * ScaleFactor,
     px |-> [p \in Pixels(image.w * ScaleFactor, image.h * ScaleFactor) |->
                Clamp(image.px[<<((p[1] - 1) \div ScaleFactor) + 1,
                                 ((p[2] - 1) \div ScaleFactor) + 1>>]
                      + Ringing(pattern, p), 0, 255)]]

\* binarisation that also whitens a pixel equal to the threshold
Binarize_Inclusive(image, threshold) ==
    [w |-> image.w, h |-> image.h,
     px |-> [p \in Pixels(image.w, image.h) |->
                IF image.px[p] >= threshold THEN 255 ELSE 0]]

\* image.point(lambda p: 255 if p > threshold else 0)
Binarize(image, threshold) ==
    [w |-> image.w, h |-> image.h,
     px |-> [p \in Pixels(image.w, image.h) |->
                IF image.px[p] > threshold THEN 255 ELSE 0]]

\* ------------------------------------------------- OBSSession.fetch_grades
\* most tables on the page drawn for one call of fetch_grades
MaxTables == 2

\* len(table_xpaths); the last one, //table, matches every table
NumXpaths == 9

\* what the table search reads of a table: xpath is the index of the first
\* entry of table_xpaths that matches it, keyword says that its lower-cased
\* text holds 'ders', 'not' or 'vize', rows is the number of its tr elements,
\* code_pattern says that its text matches [A-Z]{2,4}\d{3,4}
Table ==
    [xpath : {1, NumXpaths}, keyword : BOOLEAN, rows : {1, 2, 3, 5}, code_pattern : BOOLEAN]

\* the test of the primary search on one table
LooksLikeGrades(table) == table.keyword /\ table.rows >= 2

\* the first table of the page that looks like grades, whatever xpath finds it
PrimarySearch_DocumentOrder(page) ==
    LET hits == {i \in DOMAIN page : LooksLikeGrades(page[i])}
    IN  IF hits = {} THEN 0 ELSE Min(hits)

\* the loops over table_xpaths and over the tables each xpath finds, in
\* document order: the position on the page of main_table, 0 for None
PrimarySearch(page) ==
    LET hits == {i \in DOMAIN page : LooksLikeGrades(page[i])}
        first_xpath == Min({page[i].xpath : i \in hits})
    IN  IF hits = {} THEN 0
        ELSE Min({i \in hits : page[i].xpath = first_xpath})

\* a fallback that takes any table of three rows or more
FallbackAccepts_ThreeRows(table) ==
    table.rows >= 2 /\ (table.code_pattern \/ table.rows >= 3)

\* the test of the fallback on one table
FallbackAccepts(table) ==
    table.rows >= 2 /\ (table.code_pattern \/ table.rows >= 5)

\* if not main_table: the first table in document order that the fallback
\* accepts, 0 for None
FallbackSearch(page) ==
    LET hits == {i \in DOMAIN page : FallbackAccepts(page[i])}
    IN  IF hits = {} THEN 0 ELSE Min(hits)

\* the records the row loop can append for a table: one at most for each row
\* after the header row
ParsedRecords == <<"row1", "row2", "row3", "row4">>

\* an exception under the try of fetch_grades leaves the function
FetchOnException_Propagates == [raised |-> TRUE, value |-> <<>>]

\* except Exception as e: ... return []
FetchOnException == [raised |-> FALSE, value |-> <<>>]

\* --------------------------------------- the row loop of fetch_grades
LowerChars ==
    <<"a", "b", "c", "d", "e", "f", "g", "h", "i", "j", "k", "l", "m", "n", "o", "p", "q", "r", "s", "t", "u", "v", "w", "x", "y", "z">>
UpperChars ==
    <<"A", "B", "C", "D", "E", "F", "G", "H", "I", "J", "K", "L", "M", "N", "O", "P", "Q", "R", "S", "T", "U", "V", "W", "X", "Y", "Z">>

\* the letter U+0131 of the portal's language (i without dot), written with a
\* character that no text of the model uses otherwise
DotlessI == "|"

IsLower(c) == \E i \in DOMAIN LowerChars : LowerChars[i] = c
IsUpper(c) == \E i \in DOMAIN UpperChars : UpperChars[i] = c

\* c.isalpha() on the characters of the model; c.isdigit() is c \in Digits
IsAlpha(c) == IsLower(c) \/ IsUpper(c) \/ c = DotlessI

\* str.upper() and str.lower(), character by character
Upper(text) ==
    [i \in DOMAIN text |->
        IF text[i] = DotlessI THEN "I"
        ELSE IF IsLower(text[i])
        THEN UpperChars[CHOOSE k \in DOMAIN LowerChars : LowerChars[k] = text[i]]
        ELSE text[i]]
Lower(text) ==
    [i \in DOMAIN text |->
        IF IsUpper(text[i])
        THEN LowerChars[CHOOSE k \in DOMAIN UpperChars : UpperChars[k] = text[i]]
        ELSE text[i]]

\* sub in text
ContainsText(text, sub) ==
    \E i \in 0..(Len(text) - Len(sub)) : SubSeq(text, i + 1, i + Len(sub)) = sub

\* None for an index
NoIndex == -1

\* the branch of the if/elif chain that a header text takes
HeaderRole(header) ==
    IF ContainsText(header, <<"d", "e", "r", "s", " ", "k", "o", "d", "u">>) THEN "code"
    ELSE IF ContainsText(header, <<"d", "e", "r", "s", " ", "a", "d", "|">>) THEN "name"
    ELSE IF header = <<"n", "o", "t">> \/ header = <<"h", "a", "r", "f", " ", "n", "o", "t", "u">> THEN "grade"
    ELSE IF \/ ContainsText(header, <<"s", "|", "n", "a", "v">>)
            \/ ContainsText(header, <<"v", "i", "z", "e">>)
            \/ ContainsText(header, <<"f", "i", "n", "a", "l">>) THEN "exam"
    ELSE "none"

\* the index the loop over header_texts leaves for a role: that of the last
\* header that takes the branch, counted from 0
HeaderIndex(header_texts, role) ==
    LET hits == {i \in DOMAIN header_texts : HeaderRole(header_texts[i]) = role}
    IN  IF hits = {} THEN NoIndex ELSE Max(hits) - 1

letter_grades ==
    {<<"A", "A">>, <<"B", "A">>, <<"B", "B">>, <<"C", "B">>,
     <<"C", "C">>, <<"D", "C">>, <<"D", "D">>, <<"F", "F">>,
     <<"F", "D">>, <<"N", "A">>, <<"V", "Z">>, <<"M", "U">>}

\* float(text) on the texts of the model: digits with at most one point and
\* a digit on one side of it at least
IsFloat(text) ==
    /\ \E i \in DOMAIN text : text[i] \in Digits
    /\ \A i \in DOMAIN text : text[i] \in Digits \/ text[i] = "."
    /\ Cardinality({i \in DOMAIN text : text[i] = "."}) <= 1

\* text.replace(',', '.')
ReplaceComma(text) == [i \in DOMAIN text |-> IF text[i] = "," THEN "." ELSE text[i]]

\* the digits of a float text before and after its point
WholePart(text) ==
    LET points == {i \in DOMAIN text : text[i] = "."}
    IN  IF points = {} THEN text ELSE SubSeq(text, 1, Min(points) - 1)
FractionPart(text) ==
    LET points == {i \in DOMAIN text : text[i] = "."}
    IN  IF points = {} THEN <<>> ELSE SubSeq(text, Min(points) + 1, Len(text))

\* the test of the scan from the right on one cell: a letter grade, or a
\* float num with 0 <= num <= 100
ScanAccepts(text) ==
    LET number == ReplaceComma(text)
    IN  \/ Upper(text) \in letter_grades
        \/ /\ IsFloat(number)
           /\ \/ ToInt(WholePart(number)) < 100
              \/ /\ ToInt(WholePart(number)) = 100
                 /\ \A i \in DOMAIN FractionPart(number) : FractionPart(number)[i] = "0"

\* range(len(col_texts) - 1, 2, -1) ends at index 3
ScanFrom == 3

\* a scan from the right over all the cells of the row
RightScan_AllCells(col_texts) ==
    LET hits == {i \in 0..(Len(col_texts) - 1) : ScanAccepts(Strip(col_texts[i + 1]))}
        text == Strip(col_texts[Max(hits) + 1])
    IN  IF hits = {} THEN <<>>
        ELSE IF Upper(text) \in letter_grades THEN Upper(text)
        ELSE text

\* if not final_grade: the first cell from the right that the scan accepts,
\* letter grades in upper case; "" if there is none
RightScan(col_texts) ==
    LET hits == {i \in ScanFrom..(Len(col_texts) - 1) : ScanAccepts(Strip(col_texts[i + 1]))}
        text == Strip(col_texts[Max(hits) + 1])
    IN  IF hits = {} THEN <<>>
        ELSE IF Upper(text) \in letter_grades THEN Upper(text)
        ELSE text

\* the test of the guess of the course code on one cell
LooksLikeCode(text) ==
    /\ Len(text) >= 5
    /\ Len(text) <= 10
    /\ \E i \in DOMAIN text : IsAlpha(text[i])
    /\ \E i \in DOMAIN text : text[i] \in Digits

\* the loop over col_texts[:4]: the index of the first cell that looks like a
\* course code, NoIndex if there is none
GuessCodeIndex(col_texts) ==
    LET hits == {i \in 0..(Min({Len(col_texts), 4}) - 1) : LooksLikeCode(col_texts[i + 1])}
    IN  IF hits = {} THEN NoIndex ELSE Min(hits)

\* a guess that is made again for every row
CodeIndexAfter_GuessPerRow(idx, col_texts) == idx

\* code_idx after the row: the guess sets it when the header gave none, or
\* one that the row does not reach
CodeIndexAfter(idx, col_texts) ==
    IF idx # NoIndex /\ idx < Len(col_texts) THEN idx
    ELSE IF GuessCodeIndex(col_texts) # NoIndex THEN GuessCodeIndex(col_texts)
    ELSE idx

\* course_code of a generic row
GenericCode(idx, col_texts) ==
    IF idx # NoIndex /\ idx < Len(col_texts) THEN col_texts[idx + 1]
    ELSE IF GuessCodeIndex(col_texts) # NoIndex THEN col_texts[GuessCodeIndex(col_texts) + 1]
    ELSE <<>>

\* course_name of a generic row, idx being code_idx after the guess
GenericName(n_idx, idx, col_texts) ==
    IF n_idx # NoIndex /\ n_idx < Len(col_texts) THEN col_texts[n_idx + 1]
    ELSE IF idx # NoIndex /\ idx + 1 < Len(col_texts) THEN col_texts[idx + 2]
    ELSE <<>>

\* final_grade of a generic row: the cell of the grade column, and the scan
\* from the right when that gives nothing
GenericGrade(g_idx, col_texts) ==
    LET final_grade == IF g_idx # NoIndex /\ g_idx < Len(col_texts)
                       THEN col_texts[g_idx + 1] ELSE <<>>
    IN  IF final_grade = <<>> THEN RightScan(col_texts) ELSE final_grade

\* text.split(':') has two parts
ColonAt(text) == CHOOSE i \in DOMAIN text : text[i] = ":"
IsExamCell(text) ==
    /\ ContainsText(Lower(text), <<"v", "i", "z", "e">>) \/ Contains(text, ":")
    /\ Cardinality({i \in DOMAIN text : text[i] = ":"}) = 1
    /\ IsFloat(ReplaceComma(Strip(SubSeq(text, ColonAt(text) + 1, Len(text)))))

\* the float of an exam score: its whole part and the digits behind the
\* point without the zeros at the end
RECURSIVE DropZeros(_)
DropZeros(digits) ==
    IF digits # <<>> /\ digits[Len(digits)] = "0"
    THEN DropZeros(SubSeq(digits, 1, Len(digits) - 1))
    ELSE digits

\* exam_grades of a generic row: a later cell with the same label overwrites
ExamGrades(col_texts) ==
    LET cells == {i \in DOMAIN col_texts : IsExamCell(col_texts[i])}
        Label(i) == Strip(SubSeq(col_texts[i], 1, ColonAt(col_texts[i]) - 1))
        Score(i) == Strip(SubSeq(col_texts[i], ColonAt(col_texts[i]) + 1, Len(col_texts[i])))
        Float(text) == [whole |-> ToInt(WholePart(ReplaceComma(text))),
                        fraction |-> DropZeros(FractionPart(ReplaceComma(text)))]
    IN  [label \in {Label(i) : i \in cells} |->
            Float(Score(Max({i \in cells : Label(i) = label})))]

\* len(cols) below which a row is skipped
MinCurriculumCols == 7
MinGenericCols == 3

\* re.search(r'\s([A-Z]{2})\s*$', details_text): the two capitals behind a
\* whitespace that only whitespace follows, "" without match
GradeMatch(details_text) ==
    LET ends == {i \in 1..(Len(details_text) - 2) :
                    /\ details_text[i] \in Whitespace
                    /\ IsUpper(details_text[i + 1])
                    /\ IsUpper(details_text[i + 2])
                    /\ \A j \in (i + 3)..Len(details_text) : details_text[j] \in Whitespace}
    IN  IF ends = {} THEN <<>>
        ELSE SubSeq(details_text, Min(ends) + 1, Min(ends) + 2)

\* details_text.split()[-1], "" for no part
LastToken(text) ==
    LET stripped == Strip(text)
        gaps == {i \in DOMAIN stripped : stripped[i] \in Whitespace}
    IN  IF gaps = {} THEN stripped
        ELSE SubSeq(stripped, Max(gaps) + 1, Len(stripped))

\* the last token is the grade whether it is a letter grade or not
CurriculumGrade_AnyLastToken(details_text) ==
    IF GradeMatch(details_text) # <<>> THEN GradeMatch(details_text)
    ELSE LastToken(details_text)

\* final_grade of a curriculum row
CurriculumGrade(details_text) ==
    IF GradeMatch(details_text) # <<>> THEN GradeMatch(details_text)
    ELSE IF LastToken(details_text) \in letter_grades THEN LastToken(details_text)
    ELSE <<>>

\* grade_info of a curriculum row
CurriculumRecord(cols) ==
    LET final_grade == CurriculumGrade(Strip(cols[Len(cols)]))
    IN  [course_code |-> Strip(cols[1]),
         course_name |-> Strip(cols[2]),
         grade |-> final_grade,
         exam_grades |-> <<>>,
         status |-> IF final_grade # <<>> THEN "Final" ELSE ""]

\* grade_info of a generic row
GenericRecord(idx, n_idx, g_idx, col_texts) ==
    [course_code |-> GenericCode(idx, col_texts),
     course_name |-> GenericName(n_idx, CodeIndexAfter(idx, col_texts), col_texts),
     grade |-> GenericGrade(g_idx, col_texts),
     exam_grades |-> ExamGrades(col_texts),
     status |-> ""]

\* ------------------------------------------------------------------- state
VARIABLES
    previous,       \* diff: the previous snapshot P
    current,        \* diff: the current snapshot C
    diff_pc,        \* diff: "input" before the call, "done" after it
    diff_out,       \* diff: the list get_new_grades returned
    pc,             \* main: position in main() / check_for_new_grades()
    running,        \* main: the global flag the signal handler clears
    cache_file,     \* the cache file on disk
    cache_at_start, \* the cache file when the run in progress began
    prev_sent_written, \* the run before this one sent its notification and wrote the cache
    cached_grades,  \* check_for_new_grades: value load_cache returned
    current_grades, \* check_for_new_grades: list fetch_grades returned
    new_grades,     \* check_for_new_grades: list get_new_grades returned
    notify_result,  \* "none", "sent", "failed" (False) or "raised"
    exc,            \* step of the run that raised, or "none"
    run_log,        \* steps the run in progress has executed, in order
    propagated,     \* "none", or where an exception left main(): "startup", "run"
    lpc,            \* login: position in login() / _attempt_login() / captcha solving
    max_retries,    \* login: the argument of login()
    gemini_enabled, \* login: config.GEMINI_API_KEY and GEMINI_AVAILABLE
    attempt,        \* login: the loop variable of login(), 0 before the first attempt
    logged_in,      \* OBSSession.logged_in
    login_result,   \* "none" while login() runs, then "true" or "false"
    delays,         \* login: number of time.sleep(2) between attempts
    captcha_answer, \* _attempt_login: what _get_captcha_answer returned
    answer_from,    \* tier that produced captcha_answer: "none", "vision", "ocr"
    captcha_done,   \* _get_captcha_answer has returned in this attempt
    captcha_exc,    \* step of the solve whose exception was caught, or "none"
    captcha_raised, \* an exception left _get_captcha_answer
    submitted,      \* the login button was clicked in this attempt
    model_idx,      \* vision tier: index in models_to_try of the model in use
    retry_i,        \* vision tier: the loop variable i of the retry loop
    vision_calls,   \* vision tier: generate_content calls made in this solve
    last_wait,      \* vision tier: seconds slept before the pending retry
    last_model,     \* vision tier: index of the model of the latest call
    last_call,      \* vision tier: "none", or how the latest call ended
    vision_outcome, \* how the vision tier ended in this solve, see FindCaptcha
    ocr_ran,        \* the OCR tier was entered in this solve
    ocr_raw,        \* OCR tier: texts tesseract returned, in sweep order
    solve_pc,       \* solve: "input" before the call of solve_math_captcha, "done" after
    solve_text,     \* solve: the argument captcha_text
    solve_result,   \* solve: what solve_math_captcha returned
    fpc,            \* fetch: position in fetch_grades
    page,           \* fetch: the tables of the page after navigation, in document order
    main_table,     \* fetch: position on the page of main_table, 0 for None
    fetch_result,   \* fetch: the list fetch_grades returned
    fetch_exc,      \* fetch: step whose exception was caught, or "none"
    fetch_raised,   \* fetch: an exception left fetch_grades
    ipc,            \* image: the statement of _preprocess_captcha_image to execute next
    image_in,       \* image: the image passed in by the caller
    threshold,      \* image: the argument threshold
    aggressive,     \* image: the argument aggressive
    image,          \* image: the local variable image; at "done" the returned image
    image_upscaled, \* image: the value of image after the resize
    driver,         \* session: self.driver, "none" for None or "open"
    spc,            \* session: "idle" between calls, else the position in the running method
    caller,         \* session: the public method that is running, or "none"
    tries,          \* session: the variable attempt of the running login()
    closed,         \* session: close() has returned and no login attempt succeeded since
    history,        \* session: the outcomes of the calls that have returned, in order
    rpc,            \* rows: "header" before the header is read, "rows" in the loop, then "done"
    is_curriculum,  \* rows: 'grd_ders' is in the id of main_table
    header_cells,   \* rows: the texts of the cells of rows[0]
    code_idx,       \* rows: the local variables code_idx, name_idx, grade_idx
    name_idx,       \*       and exam_grades_idx, NoIndex for None
    grade_idx,
    exam_grades_idx,
    cols,           \* rows: the texts of the td cells of the row processed last
    row_idx,        \* rows: the number of data rows processed
    grades,         \* rows: the list grades
    appended,       \* rows: the row processed last has a record in grades
    sources         \* rows: for each record of grades the row_idx of its row

diff_vars == <<previous, current, diff_pc, diff_out>>
run_vars == <<pc, running, cache_file, cache_at_start, prev_sent_written, cached_grades,
              current_grades, new_grades, notify_result, exc, run_log, propagated>>
login_cfg == <<max_retries, gemini_enabled>>
loop_vars == <<attempt, logged_in, login_result, delays>>
captcha_vars == <<captcha_answer, answer_from, captcha_done, captcha_exc, captcha_raised>>
vision_vars == <<model_idx, retry_i, vision_calls, last_wait, last_model, last_call>>
tier_vars == <<vision_outcome, ocr_ran>>
login_vars == <<lpc, login_cfg, loop_vars, captcha_vars, vision_vars, tier_vars,
                ocr_raw, submitted>>
solve_vars == <<solve_pc, solve_text, solve_result>>
fetch_vars == <<fpc, page, main_table, fetch_result, fetch_exc, fetch_raised>>
image_vars == <<ipc, image_in, threshold, aggressive, image, image_upscaled>>
session_vars == <<driver, spc, caller, tries, closed, history>>
rows_vars == <<rpc, is_curriculum, header_cells, code_idx, name_idx, grade_idx,
               exam_grades_idx, cols, row_idx, grades, appended, sources>>
pure_vars == <<solve_vars, fetch_vars, image_vars, session_vars, rows_vars>>
vars == <<diff_vars, run_vars, login_vars, pure_vars>>

DiffIdle ==
    /\ previous = <<>>
    /\ current = <<>>
    /\ diff_pc = "off"
    /\ diff_out = <<>>

LoginLocalsIdle ==
    /\ lpc = "off"
    /\ max_retries = 0
    /\ gemini_enabled = FALSE
    /\ attempt = 0
    /\ login_result = "none"
    /\ delays = 0
    /\ captcha_answer = NoneStr
    /\ answer_from = "none"
    /\ captcha_done = FALSE
    /\ captcha_exc = "none"
    /\ captcha_raised = FALSE
    /\ submitted = FALSE
    /\ model_idx = 0
    /\ retry_i = 0
    /\ vision_calls = 0
    /\ last_wait = 0
    /\ last_model = 0
    /\ last_call = "none"
    /\ vision_outcome = "not_run"
    /\ ocr_ran = FALSE
    /\ ocr_raw = <<>>

LoginIdle == LoginLocalsIdle /\ logged_in = FALSE

SolveIdle ==
    /\ solve_pc = "off"
    /\ solve_text = <<>>
    /\ solve_result = NoneStr

FetchIdle ==
    /\ fpc = "off"
    /\ page = <<>>
    /\ main_table = 0
    /\ fetch_result = <<>>
    /\ fetch_exc = "none"
    /\ fetch_raised = FALSE

NoImage == [w |-> 0, h |-> 0, px |-> <<>>]

ImageIdle ==
    /\ ipc = "off"
    /\ image_in = NoImage
    /\ threshold = 0
    /\ aggressive = FALSE
    /\ image = NoImage
    /\ image_upscaled = NoImage

\* OBSSession.__init__: no driver, not logged in; no call has been made
SessionIdle ==
    /\ driver = "none"
    /\ spc = "off"
    /\ caller = "none"
    /\ tries = 0
    /\ closed = FALSE
    /\ history = <<>>

RowsIdle ==
    /\ rpc = "off"
    /\ is_curriculum = FALSE
    /\ header_cells = <<>>
    /\ code_idx = NoIndex
    /\ name_idx = NoIndex
    /\ grade_idx = NoIndex
    /\ exam_grades_idx = NoIndex
    /\ cols = <<>>
    /\ row_idx = 0
    /\ grades = <<>>
    /\ appended = FALSE
    /\ sources = <<>>

PureIdle == SolveIdle /\ FetchIdle /\ ImageIdle /\ SessionIdle /\ RowsIdle

RunIdle ==
    /\ pc = "off"
    /\ running = TRUE
    /\ cache_file = FileMissing
    /\ cache_at_start = FileMissing
    /\ prev_sent_written = FALSE
    /\ cached_grades = JsonList(<<>>)
    /\ current_grades = <<>>
    /\ new_grades = <<>>
    /\ notify_result = "none"
    /\ exc = "none"
    /\ run_log = <<>>
    /\ propagated = "none"

\* --------------------------------------------- specification of the pure diff
DiffInit ==
    /\ previous \in SeqsUpTo(GradeRecord, MaxPrev)
    /\ current \in SeqsUpTo(GradeRecord, MaxCur)
    /\ diff_pc = "input"
    /\ diff_out = <<>>
    /\ RunIdle
    /\ LoginIdle
    /\ PureIdle

DiffCall ==
    /\ diff_pc = "input"
    /\ diff_out' = get_new_grades(previous, current)
    /\ diff_pc' = "done"
    /\ UNCHANGED <<previous, current, run_vars, login_vars, pure_vars>>

DiffNext == DiffCall

SpecDiff == DiffInit /\ [][DiffNext]_vars

\* ------------------------------------------- main() and check_for_new_grades
Init ==
    /\ pc = "main"
    /\ running = TRUE
    /\ cache_file \in {FileMissing, FileUnreadable, FileUndecodable,
                       FileInvalidJson, FileJson(JsonNumber)}
                      \cup {FileJson(JsonList(s)) : s \in SeqsUpTo(PortalRecord, MaxRows)}
    /\ cache_at_start = cache_file
    /\ prev_sent_written = FALSE
    /\ cached_grades = JsonList(<<>>)
    /\ current_grades = <<>>
    /\ new_grades = <<>>
    /\ notify_result = "none"
    /\ exc = "none"
    /\ run_log = <<>>
    /\ propagated = "none"
    /\ DiffIdle
    /\ LoginIdle
    /\ PureIdle

\* entry of check_for_new_grades: the locals of the previous run are gone
BeginRun ==
    /\ pc' = "load"
    /\ cache_at_start' = cache_file
    /\ prev_sent_written' = (/\ notify_result = "sent"
                             /\ run_log # <<>>
                             /\ run_log[Len(run_log)] = "write")
    /\ cached_grades' = JsonList(<<>>)
    /\ current_grades' = <<>>
    /\ new_grades' = <<>>
    /\ notify_result' = "none"
    /\ exc' = "none"
    /\ run_log' = <<>>

\* main(): send_startup_message(), then the initial check
Startup ==
    /\ pc = "main"
    /\ \E outcome \in SendOutcomes :
         IF send_message(outcome).raised
         THEN /\ pc' = "crashed"
              /\ propagated' = "startup"
              /\ UNCHANGED <<cache_at_start, prev_sent_written, cached_grades, current_grades,
                             new_grades, notify_result, exc, run_log>>
         ELSE /\ BeginRun
              /\ UNCHANGED propagated
    /\ UNCHANGED <<running, cache_file, diff_vars, login_vars, pure_vars>>

\* signal_handler, on SIGINT or SIGTERM
Signal ==
    /\ pc \notin {"crashed", "stopped"}
    /\ running = TRUE
    /\ running' = FALSE
    /\ UNCHANGED <<pc, cache_file, cache_at_start, prev_sent_written, cached_grades, current_grades,
                   new_grades, notify_result, exc, run_log, propagated, diff_vars, login_vars, pure_vars>>

\* main loop: the test of `while running` found the flag set
LoopEnter ==
    /\ pc = "loop"
    /\ running = TRUE
    /\ pc' = "pending"
    /\ UNCHANGED <<running, cache_file, cache_at_start, prev_sent_written, cached_grades,
                   current_grades, new_grades, notify_result, exc, run_log, propagated,
                   diff_vars, login_vars, pure_vars>>

\* main loop: schedule.run_pending() finds the check due and starts it
LoopRun ==
    /\ pc = "pending"
    /\ BeginRun
    /\ UNCHANGED <<running, cache_file, propagated, diff_vars, login_vars, pure_vars>>

\* main loop: schedule.run_pending() finds nothing due; time.sleep(1)
LoopSleep ==
    /\ pc = "pending"
    /\ pc' = "loop"
    /\ UNCHANGED <<running, cache_file, cache_at_start, prev_sent_written, cached_grades,
                   current_grades, new_grades, notify_result, exc, run_log, propagated,
                   diff_vars, login_vars, pure_vars>>

\* main loop: the test of `while running` found the flag cleared, the loop ends
LoopStop ==
    /\ pc = "loop"
    /\ running = FALSE
    /\ pc' = "stopped"
    /\ UNCHANGED <<running, cache_file, cache_at_start, prev_sent_written, cached_grades,
                   current_grades, new_grades, notify_result, exc, run_log, propagated,
                   diff_vars, login_vars, pure_vars>>

\* cached_grades = load_cache()
LoadCache ==
    /\ pc = "load"
    /\ LET r == load_cache(cache_file)
       IN  /\ run_log' = Append(run_log, "read")
           /\ IF r.raised
              THEN /\ exc' = "load"
                   /\ pc' = "except"
                   /\ UNCHANGED cached_grades
              ELSE /\ cached_grades' = r.value
                   /\ pc' = "fetch"
                   /\ UNCHANGED exc
    /\ UNCHANGED <<running, cache_file, cache_at_start, prev_sent_written, current_grades, new_grades,
                   notify_result, propagated, diff_vars, login_vars, pure_vars>>

\* obs = OBSSession(); current_grades = obs.fetch_grades(); obs.close();
\* the empty list ends the run
Fetch ==
    /\ pc = "fetch"
    /\ \E fetched \in SeqsUpTo(PortalRecord, MaxRows) :
         /\ current_grades' = fetched
         /\ pc' = IF FetchedNothing(fetched) THEN "loop" ELSE "diff"
    /\ run_log' = Append(run_log, "fetch")
    /\ UNCHANGED <<running, cache_file, cache_at_start, prev_sent_written, cached_grades, new_grades,
                   notify_result, exc, propagated, diff_vars, login_vars, pure_vars>>

\* new_grades = get_new_grades(cached_grades, current_grades); iterating a
\* cached value that is no list raises
Diff ==
    /\ pc = "diff"
    /\ run_log' = Append(run_log, "diff")
    /\ IF cached_grades.shape # "list"
       THEN /\ exc' = "diff"
            /\ pc' = "except"
            /\ UNCHANGED new_grades
       ELSE /\ new_grades' = get_new_grades(cached_grades.items, current_grades)
            /\ pc' = IF new_grades' # <<>> THEN "notify" ELSE "loop"
            /\ UNCHANGED exc
    /\ UNCHANGED <<running, cache_file, cache_at_start, prev_sent_written, cached_grades, current_grades,
                   notify_result, propagated, diff_vars, login_vars, pure_vars>>

\* send_multiple_grades_notification(new_grades)
Notify ==
    /\ pc = "notify"
    /\ run_log' = Append(run_log, "notify")
    /\ \E outcome \in SendOutcomes :
         LET r == send_message(outcome)
         IN  IF r.raised
             THEN /\ notify_result' = "raised"
                  /\ exc' = "notify"
                  /\ pc' = "except"
             ELSE /\ notify_result' = IF r.value THEN "sent" ELSE "failed"
                  /\ pc' = AfterNotify(r.value)
                  /\ UNCHANGED exc
    /\ UNCHANGED <<running, cache_file, cache_at_start, prev_sent_written, cached_grades, current_grades,
                   new_grades, propagated, diff_vars, login_vars, pure_vars>>

\* save_cache(current_grades)
SaveCache ==
    /\ pc = "save"
    /\ \E io_ok \in BOOLEAN :
         /\ cache_file' = save_cache(cache_file, CacheContent(current_grades, new_grades), io_ok)
         /\ run_log' = Append(run_log, IF io_ok THEN "write" ELSE "write_failed")
    /\ pc' = "loop"
    /\ UNCHANGED <<running, cache_at_start, prev_sent_written, cached_grades, current_grades, new_grades,
                   notify_result, exc, propagated, diff_vars, login_vars, pure_vars>>

\* except Exception: send_error_notification(error_msg)
ErrorAlert ==
    /\ pc = "except"
    /\ \E outcome \in SendOutcomes :
         LET r == send_message(outcome)
         IN  IF r.raised
             THEN /\ pc' = "crashed"
                  /\ propagated' = "run"
                  /\ run_log' = Append(run_log, "alert_raised")
             ELSE /\ pc' = "loop"
                  /\ run_log' = Append(run_log, IF r.value THEN "alert" ELSE "alert_failed")
                  /\ UNCHANGED propagated
    /\ UNCHANGED <<running, cache_file, cache_at_start, prev_sent_written, cached_grades, current_grades,
                   new_grades, notify_result, exc, diff_vars, login_vars, pure_vars>>

Next ==
    \/ Startup
    \/ Signal
    \/ LoopEnter
    \/ LoopRun
    \/ LoopSleep
    \/ LoopStop
    \/ LoadCache
    \/ Fetch
    \/ Diff
    \/ Notify
    \/ SaveCache
    \/ ErrorAlert

Spec == Init /\ [][Next]_vars

\* ---------------------------------------------- login() and the captcha solve
LoginInit ==
    /\ lpc = "login"
    /\ max_retries \in 1..DefaultMaxRetries
    /\ gemini_enabled \in BOOLEAN
    /\ attempt = 0
    /\ logged_in = FALSE
    /\ login_result = "none"
    /\ delays = 0
    /\ captcha_answer = NoneStr
    /\ answer_from = "none"
    /\ captcha_done = FALSE
    /\ captcha_exc = "none"
    /\ captcha_raised = FALSE
    /\ submitted = FALSE
    /\ model_idx = 0
    /\ retry_i = 0
    /\ vision_calls = 0
    /\ last_wait = 0
    /\ last_model = 0
    /\ last_call = "none"
    /\ vision_outcome = "not_run"
    /\ ocr_ran = FALSE
    /\ ocr_raw = <<>>
    /\ DiffIdle
    /\ RunIdle
    /\ PureIdle

\* _get_captcha_answer returns value to _attempt_login
CaptchaReturns(value, tier) ==
    /\ captcha_answer' = value
    /\ UNCHANGED captcha_exc
    /\ answer_from' = tier
    /\ captcha_done' = TRUE
    /\ lpc' = "check_answer"
    /\ UNCHANGED captcha_raised

\* an exception under the try of _get_captcha_answer, raised at step
CaptchaException(step) ==
    /\ captcha_exc' = step
    /\ IF CaptchaOnException.raised
       THEN /\ captcha_raised' = TRUE
            /\ lpc' = "failed"
            /\ UNCHANGED <<captcha_answer, answer_from, captcha_done>>
       ELSE /\ captcha_answer' = CaptchaOnException.value
            /\ answer_from' = "none"
            /\ captcha_done' = TRUE
            /\ lpc' = "check_answer"
            /\ UNCHANGED captcha_raised

\* login(): the next iteration of the for loop
BeginAttempt ==
    /\ lpc = "login"
    /\ attempt < max_retries
    /\ attempt' = attempt + 1
    /\ lpc' = "page"
    /\ UNCHANGED <<login_cfg, logged_in, login_result, delays, captcha_vars,
                   vision_vars, tier_vars, ocr_raw, submitted, diff_vars, run_vars, pure_vars>>

\* login(): the loop is exhausted, return False
LoginGiveUp ==
    /\ lpc = "login"
    /\ attempt >= max_retries
    /\ login_result' = "false"
    /\ lpc' = "done"
    /\ UNCHANGED <<login_cfg, attempt, logged_in, delays, captcha_vars, vision_vars,
                   tier_vars, ocr_raw, submitted, diff_vars, run_vars, pure_vars>>

\* _attempt_login: _init_driver, load the login page, fill the credentials;
\* a timeout or any other exception makes the attempt return False
OpenLoginPage ==
    /\ lpc = "page"
    /\ \E outcome \in {"ok", "timeout", "error"} :
         lpc' = IF outcome = "ok" THEN "captcha" ELSE "failed"
    /\ UNCHANGED <<login_cfg, loop_vars, captcha_vars, vision_vars, tier_vars, ocr_raw,
                   submitted, diff_vars, run_vars, pure_vars>>

\* _get_captcha_answer: find the captcha element, take and save its screenshot,
\* then enter the vision tier when it is configured, else skip it and enter
\* the OCR tier
FindCaptcha ==
    /\ lpc = "captcha"
    /\ \E ok \in BOOLEAN :
         IF ok
         THEN /\ lpc' = IF gemini_enabled THEN "vision_setup" ELSE "ocr"
              /\ vision_outcome' = IF gemini_enabled THEN "running" ELSE "skipped"
              /\ UNCHANGED captcha_vars
         ELSE /\ CaptchaException("element")
              /\ UNCHANGED vision_outcome
    /\ UNCHANGED <<login_cfg, loop_vars, vision_vars, ocr_ran, ocr_raw, submitted,
                   diff_vars, run_vars, pure_vars>>

\* _solve_captcha_with_gemini returned None, for the reason given: back in
\* _get_captcha_answer (the locals of the tier end with it)
VisionTierNone(reason) ==
    /\ vision_outcome' = reason
    /\ model_idx' = 0
    /\ retry_i' = 0
    /\ last_wait' = 0
    /\ last_call' = "none"
    /\ UNCHANGED captcha_exc
    /\ IF AfterVisionTier(NoneStr) = "ocr"
       THEN /\ lpc' = "ocr"
            /\ UNCHANGED <<captcha_answer, answer_from, captcha_done, captcha_raised>>
       ELSE /\ captcha_answer' = NoneStr
            /\ answer_from' = "none"
            /\ captcha_done' = TRUE
            /\ lpc' = "check_answer"
            /\ UNCHANGED captcha_raised

\* _solve_captcha_with_gemini: create the client and encode the image; an
\* exception there makes the tier return None
VisionSetup ==
    /\ lpc = "vision_setup"
    /\ \E ok \in BOOLEAN :
         IF ok
         THEN /\ lpc' = "vision_call"
              /\ model_idx' = 1
              /\ UNCHANGED <<captcha_vars, vision_outcome, retry_i, last_wait, last_call>>
         ELSE VisionTierNone("exception")
    /\ UNCHANGED <<login_cfg, loop_vars, vision_calls, last_model, ocr_ran,
                   ocr_raw, submitted, diff_vars, run_vars, pure_vars>>

\* the vision tier gives the model up: the next model, or None after the last
NextModel(failure) ==
    IF model_idx < NumModels
    THEN /\ model_idx' = model_idx + 1
         /\ retry_i' = 0
         /\ last_wait' = 0
         /\ last_call' = failure
         /\ UNCHANGED <<lpc, captcha_vars, vision_outcome>>
    ELSE VisionTierNone("exhausted")

\* one client.models.generate_content call of the vision tier: a response ends
\* the search and its text decides the answer; a failure retries or moves on
VisionCall ==
    /\ lpc = "vision_call"
    /\ vision_calls' = vision_calls + 1
    /\ last_model' = model_idx
    /\ \/ \E text \in VisionTexts :
            IF EndsSearch(text)
            THEN IF AfterVisionTier(gemini_answer(text)) = "return"
                 THEN /\ CaptchaReturns(gemini_answer(text), "vision")
                      /\ vision_outcome' = "answer"
                      /\ model_idx' = 0
                      /\ retry_i' = 0
                      /\ last_wait' = 0
                      /\ last_call' = "none"
                 ELSE VisionTierNone(IF text = <<>> THEN "empty" ELSE "digit_free")
            ELSE NextModel("empty")
       \/ \E rate_limited \in BOOLEAN :
            IF AfterVisionFailure(retry_i, rate_limited) = "retry"
            THEN /\ retry_i' = retry_i + 1
                 /\ last_wait' = WaitTime(retry_i)
                 /\ last_call' = IF rate_limited THEN "rate_limited" ELSE "error"
                 /\ UNCHANGED <<lpc, model_idx, captcha_vars, vision_outcome>>
            ELSE NextModel(IF rate_limited THEN "rate_limited" ELSE "error")
    /\ UNCHANGED <<login_cfg, loop_vars, ocr_ran, ocr_raw, submitted, diff_vars, run_vars, pure_vars>>

\* _try_multiple_ocr_approaches: the sweep returns its readings, or an image
\* operation outside the per-call try raises; no reading makes the solve
\* return None
OcrSweep ==
    /\ lpc = "ocr"
    /\ ocr_ran' = TRUE
    /\ \/ \E raw_texts \in SeqsUpTo(RawOcrTexts, MaxReadings) :
            /\ ocr_raw' = raw_texts
            /\ IF OcrResults(raw_texts) = {}
               THEN CaptchaReturns(NoneStr, "none")
               ELSE /\ lpc' = "select"
                    /\ UNCHANGED captcha_vars
       \/ /\ CaptchaException("ocr")
          /\ UNCHANGED ocr_raw
    /\ UNCHANGED <<login_cfg, loop_vars, vision_vars, vision_outcome, submitted,
                   diff_vars, run_vars, pure_vars>>

\* score the readings, take the first of the sorted list and solve it
SelectBest ==
    /\ lpc = "select"
    /\ \E best \in BestReadings(OcrResults(ocr_raw)) :
         CaptchaReturns(solve_math_captcha(best), "ocr")
    /\ UNCHANGED <<login_cfg, loop_vars, vision_vars, tier_vars, ocr_raw, submitted,
                   diff_vars, run_vars, pure_vars>>

\* _attempt_login after the solve, whose locals are gone: without an answer
\* return False; with one, type it and click the login button (either can
\* fail with an exception)
CheckAnswer ==
    /\ lpc = "check_answer"
    /\ IF Truthy(captcha_answer)
       THEN \E ok \in BOOLEAN :
              /\ submitted' = ok
              /\ lpc' = IF ok THEN "verify" ELSE "failed"
       ELSE /\ lpc' = "failed"
            /\ UNCHANGED submitted
    /\ model_idx' = 0
    /\ retry_i' = 0
    /\ vision_calls' = 0
    /\ last_wait' = 0
    /\ last_model' = 0
    /\ last_call' = "none"
    /\ vision_outcome' = "not_run"
    /\ ocr_ran' = FALSE
    /\ ocr_raw' = <<>>
    /\ UNCHANGED <<login_cfg, loop_vars, captcha_vars, diff_vars, run_vars, pure_vars>>

\* _attempt_login: the page after the click shows a logged-in session or not;
\* login() returns True on the first successful attempt
VerifyLogin ==
    /\ lpc = "verify"
    /\ \E success \in BOOLEAN :
         IF success
         THEN /\ logged_in' = TRUE
              /\ login_result' = "true"
              /\ lpc' = "done"
         ELSE /\ lpc' = "failed"
              /\ UNCHANGED <<logged_in, login_result>>
    /\ UNCHANGED <<login_cfg, attempt, delays, captcha_vars, vision_vars, tier_vars,
                   ocr_raw, submitted, diff_vars, run_vars, pure_vars>>

\* login(): the attempt returned False and its locals are gone; sleep 2 s
\* unless it was the last attempt
AttemptFailed ==
    /\ lpc = "failed"
    /\ delays' = IF SleepBetween(attempt, max_retries) THEN delays + 1 ELSE delays
    /\ lpc' = "login"
    /\ captcha_answer' = NoneStr
    /\ answer_from' = "none"
    /\ captcha_done' = FALSE
    /\ captcha_exc' = "none"
    /\ captcha_raised' = FALSE
    /\ submitted' = FALSE
    /\ model_idx' = 0
    /\ retry_i' = 0
    /\ vision_calls' = 0
    /\ last_wait' = 0
    /\ last_model' = 0
    /\ last_call' = "none"
    /\ vision_outcome' = "not_run"
    /\ ocr_ran' = FALSE
    /\ ocr_raw' = <<>>
    /\ UNCHANGED <<login_cfg, attempt, logged_in, login_result, diff_vars, run_vars, pure_vars>>

LoginNext ==
    \/ BeginAttempt
    \/ LoginGiveUp
    \/ OpenLoginPage
    \/ FindCaptcha
    \/ VisionSetup
    \/ VisionCall
    \/ OcrSweep
    \/ SelectBest
    \/ CheckAnswer
    \/ VerifyLogin
    \/ AttemptFailed

SpecLogin == LoginInit /\ [][LoginNext]_vars

\* ------------------------------------- specification of solve_math_captcha
SolveInit ==
    /\ solve_pc = "input"
    /\ solve_text \in SeqsUpTo(SolveAlphabet, MaxTextLen) \cup SolveExamples
    /\ solve_result = NoneStr
    /\ DiffIdle
    /\ RunIdle
    /\ LoginIdle
    /\ FetchIdle
    /\ ImageIdle
    /\ SessionIdle
    /\ RowsIdle

SolveCall ==
    /\ solve_pc = "input"
    /\ solve_result' = solve_math_captcha(solve_text)
    /\ solve_pc' = "done"
    /\ UNCHANGED <<solve_text, diff_vars, run_vars, login_vars, fetch_vars, image_vars, session_vars, rows_vars>>

SolveNext == SolveCall

SpecSolve == SolveInit /\ [][SolveNext]_vars

\* ------------------------------------------- specification of fetch_grades
login_locals == <<lpc, login_cfg, attempt, login_result, delays, captcha_vars,
                  vision_vars, tier_vars, ocr_raw, submitted>>

FetchInit ==
    /\ fpc = "start"
    /\ page \in SeqsUpTo(Table, MaxTables)
    /\ logged_in \in BOOLEAN
    /\ main_table = 0
    /\ fetch_result = <<>>
    /\ fetch_exc = "none"
    /\ fetch_raised = FALSE
    /\ LoginLocalsIdle
    /\ DiffIdle
    /\ RunIdle
    /\ SolveIdle
    /\ ImageIdle
    /\ SessionIdle
    /\ RowsIdle

\* fetch_grades returns value
FetchReturns(value) ==
    /\ fetch_result' = value
    /\ fpc' = "done"
    /\ UNCHANGED <<fetch_exc, fetch_raised>>

\* an exception under the try of fetch_grades, raised at step
FetchException(step) ==
    /\ fetch_exc' = step
    /\ fpc' = "done"
    /\ fetch_result' = FetchOnException.value
    /\ fetch_raised' = FetchOnException.raised

\* if not self.logged_in: if not self.login(): return []
EnsureLoggedIn ==
    /\ fpc = "start"
    /\ IF logged_in
       THEN /\ fpc' = "navigate"
            /\ UNCHANGED <<logged_in, fetch_result, fetch_exc, fetch_raised>>
       ELSE \E success \in BOOLEAN :
              IF success
              THEN /\ logged_in' = TRUE
                   /\ fpc' = "navigate"
                   /\ UNCHANGED <<fetch_result, fetch_exc, fetch_raised>>
              ELSE /\ FetchReturns(<<>>)
                   /\ UNCHANGED logged_in
    /\ UNCHANGED <<page, main_table, login_locals, diff_vars, run_vars, solve_vars, image_vars, session_vars, rows_vars>>

\* the walk through the menu to the grade list, up to grades = []
Navigate ==
    /\ fpc = "navigate"
    /\ \E ok \in BOOLEAN :
         IF ok
         THEN /\ fpc' = "search"
              /\ UNCHANGED <<fetch_result, fetch_exc, fetch_raised>>
         ELSE FetchException("navigate")
    /\ UNCHANGED <<page, main_table, logged_in, login_locals, diff_vars, run_vars,
                   solve_vars, image_vars, session_vars, rows_vars>>

\* the primary search over table_xpaths
SearchTable ==
    /\ fpc = "search"
    /\ \E ok \in BOOLEAN :
         IF ok
         THEN /\ main_table' = PrimarySearch(page)
              /\ fpc' = IF main_table' # 0 THEN "parse" ELSE "fallback"
              /\ UNCHANGED <<fetch_result, fetch_exc, fetch_raised>>
         ELSE /\ FetchException("search")
              /\ UNCHANGED main_table
    /\ UNCHANGED <<page, logged_in, login_locals, diff_vars, run_vars, solve_vars, image_vars, session_vars, rows_vars>>

\* if not main_table: the fallback over all tables; then, still without a
\* table, return []
SearchFallback ==
    /\ fpc = "fallback"
    /\ \E ok \in BOOLEAN :
         IF ok
         THEN /\ main_table' = FallbackSearch(page)
              /\ IF main_table' # 0
                 THEN /\ fpc' = "parse"
                      /\ UNCHANGED <<fetch_result, fetch_exc, fetch_raised>>
                 ELSE FetchReturns(<<>>)
         ELSE /\ FetchException("fallback")
              /\ UNCHANGED main_table
    /\ UNCHANGED <<page, logged_in, login_locals, diff_vars, run_vars, solve_vars, image_vars, session_vars, rows_vars>>

\* the row loop over rows[1:] of main_table, then return grades
ParseTable ==
    /\ fpc = "parse"
    /\ \/ \E n \in 0..(page[main_table].rows - 1) :
            FetchReturns(SubSeq(ParsedRecords, 1, n))
       \/ FetchException("parse")
    /\ UNCHANGED <<page, main_table, logged_in, login_locals, diff_vars, run_vars,
                   solve_vars, image_vars, session_vars, rows_vars>>

FetchNext ==
    \/ EnsureLoggedIn
    \/ Navigate
    \/ SearchTable
    \/ SearchFallback
    \/ ParseTable

SpecFetch == FetchInit /\ [][FetchNext]_vars

\* ------------------------------ specification of _preprocess_captcha_image
ImageInit ==
    /\ ipc = "convert"
    /\ image_in \in InputImages
    /\ threshold \in Thresholds
    /\ aggressive \in BOOLEAN
    /\ image = image_in
    /\ image_upscaled = NoImage
    /\ DiffIdle
    /\ RunIdle
    /\ LoginIdle
    /\ SolveIdle
    /\ FetchIdle
    /\ SessionIdle
    /\ RowsIdle

\* image = image.convert('L')
Convert ==
    /\ ipc = "convert"
    /\ image' = ConvertL(image)
    /\ ipc' = IF aggressive THEN "median" ELSE "resize"
    /\ UNCHANGED <<image_in, threshold, aggressive, image_upscaled, diff_vars, run_vars,
                   login_vars, solve_vars, fetch_vars, session_vars, rows_vars>>

\* if aggressive: image = image.filter(ImageFilter.MedianFilter(size=3))
Denoise ==
    /\ ipc = "median"
    /\ image' = MedianFilter(image)
    /\ ipc' = "resize"
    /\ UNCHANGED <<image_in, threshold, aggressive, image_upscaled, diff_vars, run_vars,
                   login_vars, solve_vars, fetch_vars, session_vars, rows_vars>>

\* image = image.resize((width * 4, height * 4), Image.Resampling.LANCZOS)
Upscale ==
    /\ ipc = "resize"
    /\ \E pattern \in RingingPatterns : image' = Resize(image, pattern)
    /\ image_upscaled' = image'
    /\ ipc' = "point"
    /\ UNCHANGED <<image_in, threshold, aggressive, diff_vars, run_vars,
                   login_vars, solve_vars, fetch_vars, session_vars, rows_vars>>

\* image = image.point(lambda p: 255 if p > threshold else 0)
Threshold ==
    /\ ipc = "point"
    /\ image' = Binarize(image, threshold)
    /\ ipc' = IF aggressive THEN "max" ELSE "done"
    /\ UNCHANGED <<image_in, threshold, aggressive, image_upscaled, diff_vars, run_vars,
                   login_vars, solve_vars, fetch_vars, session_vars, rows_vars>>

\* if aggressive: image = image.filter(ImageFilter.MaxFilter(size=3))
Dilate ==
    /\ ipc = "max"
    /\ image' = MaxFilter(image)
    /\ ipc' = "min"
    /\ UNCHANGED <<image_in, threshold, aggressive, image_upscaled, diff_vars, run_vars,
                   login_vars, solve_vars, fetch_vars, session_vars, rows_vars>>

\* image = image.filter(ImageFilter.MinFilter(size=3)); return image
Erode ==
    /\ ipc = "min"
    /\ image' = MinFilter(image)
    /\ ipc' = "done"
    /\ UNCHANGED <<image_in, threshold, aggressive, image_upscaled, diff_vars, run_vars,
                   login_vars, solve_vars, fetch_vars, session_vars, rows_vars>>

ImageNext ==
    \/ Convert
    \/ Denoise
    \/ Upscale
    \/ Threshold
    \/ Dilate
    \/ Erode

SpecImage == ImageInit /\ [][ImageNext]_vars

\* ------------------------------------------- specification of an OBSSession
\* the calls made on one session
MaxCalls == 3

SessionInit ==
    /\ driver = "none"
    /\ logged_in = FALSE
    /\ spc = "idle"
    /\ caller = "none"
    /\ tries = 0
    /\ closed = FALSE
    /\ history = <<>>
    /\ LoginLocalsIdle
    /\ DiffIdle
    /\ RunIdle
    /\ SolveIdle
    /\ FetchIdle
    /\ ImageIdle
    /\ RowsIdle

\* a public method returns to the caller of the session
SessionReturns(outcome) ==
    /\ history' = Append(history, outcome)
    /\ spc' = "idle"
    /\ caller' = "none"
    /\ tries' = 0

\* login() is called with the default max_retries
CallLogin ==
    /\ spc = "idle"
    /\ Len(history) < MaxCalls
    /\ spc' = "attempt"
    /\ caller' = "login"
    /\ tries' = 1
    /\ UNCHANGED <<driver, logged_in, closed, history>>
    /\ UNCHANGED <<login_locals, diff_vars, run_vars, solve_vars, fetch_vars, image_vars, rows_vars>>

\* login() returns success to fetch_grades or to the caller of the session
LoginReturns(success) ==
    IF caller = "fetch"
    THEN IF success
         THEN /\ spc' = "try"
              /\ UNCHANGED <<caller, tries, history>>
         ELSE SessionReturns("fetch_not_logged_in")
    ELSE SessionReturns(IF success THEN "login_true" ELSE "login_false")

\* one _attempt_login() of the loop of login(): _init_driver creates the
\* driver unless there is one, and either that or a later step can fail; the
\* flag is set when the page after the submit is the portal's
AttemptLogin ==
    /\ spc = "attempt"
    /\ \E outcome \in {"no_driver", "failed", "logged_in"} :
         /\ outcome = "no_driver" => driver = "none"
         /\ driver' = IF outcome = "no_driver" THEN "none" ELSE "open"
         /\ IF outcome = "logged_in"
            THEN /\ logged_in' = TRUE
                 /\ closed' = FALSE
                 /\ LoginReturns(TRUE)
            ELSE /\ UNCHANGED <<logged_in, closed>>
                 /\ IF tries < DefaultMaxRetries
                    THEN /\ tries' = tries + 1
                         /\ UNCHANGED <<spc, caller, history>>
                    ELSE LoginReturns(FALSE)
    /\ UNCHANGED <<login_locals, diff_vars, run_vars, solve_vars, fetch_vars, image_vars, rows_vars>>

\* fetch_grades() is called: if not self.logged_in it calls self.login()
CallFetch ==
    /\ spc = "idle"
    /\ Len(history) < MaxCalls
    /\ caller' = "fetch"
    /\ IF logged_in
       THEN /\ spc' = "try"
            /\ UNCHANGED tries
       ELSE /\ spc' = "attempt"
            /\ tries' = 1
    /\ UNCHANGED <<driver, logged_in, closed, history>>
    /\ UNCHANGED <<login_locals, diff_vars, run_vars, solve_vars, fetch_vars, image_vars, rows_vars>>

\* the try block of fetch_grades: self.driver.current_url raises on None and
\* any later step can raise; every exception ends in return []
FetchTry ==
    /\ spc = "try"
    /\ \E ok \in BOOLEAN :
         /\ ok => driver = "open"
         /\ SessionReturns(IF ok THEN "fetch_grades" ELSE "fetch_error")
    /\ UNCHANGED <<driver, logged_in, closed>>
    /\ UNCHANGED <<login_locals, diff_vars, run_vars, solve_vars, fetch_vars, image_vars, rows_vars>>

\* close(): quits the driver if there is one and sets self.driver = None
Close ==
    /\ spc = "idle"
    /\ Len(history) < MaxCalls
    /\ driver' = "none"
    /\ closed' = TRUE
    /\ history' = Append(history, "close")
    /\ UNCHANGED <<spc, caller, tries, logged_in>>
    /\ UNCHANGED <<login_locals, diff_vars, run_vars, solve_vars, fetch_vars, image_vars, rows_vars>>

SessionNext ==
    \/ CallLogin
    \/ AttemptLogin
    \/ CallFetch
    \/ FetchTry
    \/ Close

SpecSession == SessionInit /\ [][SessionNext]_vars

\* --------------------------------- specification of the row loop of fetch_grades
\* the data rows of a table
MaxDataRows == 2

\* header rows: with code, name, grade and exam column; with a grade column
\* only; with code and name column only; without any; with a grade column at
\* the end only
Headers ==
    {<<<<"D", "e", "r", "s", " ", "K", "o", "d", "u">>, <<"D", "e", "r", "s", " ", "A", "d", "|">>, <<"N", "o", "t">>, <<"V", "i", "z", "e">>>>,
     <<<<"K", "o", "d">>, <<"D", "e", "r", "s">>, <<" ", "H", "a", "r", "f", " ", "N", "o", "t", "u", " ">>, <<"D", "u", "r", "u", "m">>>>,
     <<<<"N", "o">>, <<"D", "e", "r", "s", " ", "K", "o", "d", "u">>, <<"D", "e", "r", "s", " ", "A", "d", "|">>, <<"N", "o", "t", "l", "a", "r">>>>,
     <<<<"K", "o", "d">>, <<"A", "d">>, <<"S", "o", "n", "u", "c">>>>,
     <<<<"K", "o", "d">>, <<"A", "d">>, <<"D", "u", "r", "u", "m">>, <<"N", "o", "t">>>>}

\* generic rows: a row of two cells, and rows of three cells with or without
\* a fourth cell
GenericRows ==
    LET code1 == <<"B", "L", "M", "1", "0", "1">>
        code2 == <<"B", "L", "M", "2", "0", "7">>
        name == <<"F", "i", "z", "i", "k">>
        tails == {<<>>,
                  <<<<"A", "A">>>>,
                  <<<<" ", "b", "a">>>>,
                  <<<<"1", "2", "0">>>>,
                  <<<<"V", ":", "7", ",", "5">>>>}
    IN  {<<code2, name>>} \cup
        {<<c0, c1, c2>> \o tail : c0 \in {<<>>, code2}, c1 \in {code1, name},
                                  c2 \in {<<>>, <<"8", "5">>}, tail \in tails}

\* a curriculum row of n cells
CurriculumRow(c0, n, details) ==
    [i \in 1..n |-> IF i = 1 THEN c0 ELSE IF i = 2 THEN <<"F", "i", "z", "i", "k">>
                    ELSE IF i = n THEN details ELSE <<>>]

\* curriculum rows: rows of seven cells with the texts of the last cell, and
\* one row of six and one of eight cells
CurriculumRows ==
    LET code == <<"B", "L", "M", "2", "0", "7">>
        details == {<<>>,
                    <<"B", "A">>,
                    <<"3", " ", "5", " ", "B", "A">>,
                    <<"3", " ", "5", " ", "Z", "Z">>,
                    <<"Z", "Z">>,
                    <<"3", " ", "5", " ", "b", "a">>,
                    <<"B", "A", " ", "3">>,
                    <<"5", " ", "X", "B", "A">>,
                    <<"3", " ", "5", " ", "C", "C", " ">>}
    IN  {CurriculumRow(c0, MinCurriculumCols, d) : c0 \in {<<>>, <<" ">> \o code \o <<" ">>},
                                                   d \in details} \cup
        {CurriculumRow(code, n, <<"3", " ", "5", " ", "B", "A">>) :
            n \in {MinCurriculumCols - 1, MinCurriculumCols + 1}}

RowsInit ==
    /\ rpc = "header"
    /\ is_curriculum \in BOOLEAN
    /\ header_cells \in Headers
    /\ code_idx = NoIndex
    /\ name_idx = NoIndex
    /\ grade_idx = NoIndex
    /\ exam_grades_idx = NoIndex
    /\ cols = <<>>
    /\ row_idx = 0
    /\ grades = <<>>
    /\ appended = FALSE
    /\ sources = <<>>
    /\ DiffIdle
    /\ RunIdle
    /\ LoginIdle
    /\ SolveIdle
    /\ FetchIdle
    /\ ImageIdle
    /\ SessionIdle

\* header_texts = [cell.text.strip().lower() ...] and the loop over it
ReadHeader ==
    /\ rpc = "header"
    /\ LET header_texts == [i \in DOMAIN header_cells |-> Lower(Strip(header_cells[i]))]
       IN  /\ code_idx' = HeaderIndex(header_texts, "code")
           /\ name_idx' = HeaderIndex(header_texts, "name")
           /\ grade_idx' = HeaderIndex(header_texts, "grade")
           /\ exam_grades_idx' = HeaderIndex(header_texts, "exam")
    /\ rpc' = "rows"
    /\ UNCHANGED <<is_curriculum, header_cells, cols, row_idx, grades, appended, sources>>
    /\ UNCHANGED <<diff_vars, run_vars, login_vars, solve_vars, fetch_vars, image_vars,
                   session_vars>>

\* continue: the row leaves no record
SkipRow ==
    /\ appended' = FALSE
    /\ UNCHANGED <<grades, sources>>

\* grades.append(grade_info)
AppendRecord(grade_info) ==
    /\ grades' = Append(grades, grade_info)
    /\ appended' = TRUE
    /\ sources' = Append(sources, row_idx')

\* one iteration of the loop over rows[1:]
ProcessRow ==
    /\ rpc = "rows"
    /\ row_idx < MaxDataRows
    /\ \E row \in (IF is_curriculum THEN CurriculumRows ELSE GenericRows) :
         LET col_texts == [i \in DOMAIN row |-> Strip(row[i])]
         IN  /\ cols' = row
             /\ row_idx' = row_idx + 1
             /\ IF is_curriculum
                THEN /\ IF Len(row) < MinCurriculumCols
                        THEN SkipRow
                        ELSE AppendRecord(CurriculumRecord(row))
                     /\ UNCHANGED code_idx
                ELSE IF Len(row) < MinGenericCols
                THEN /\ SkipRow
                     /\ UNCHANGED code_idx
                ELSE /\ code_idx' = CodeIndexAfter(code_idx, col_texts)
                     /\ IF GenericCode(code_idx, col_texts) = <<>>
                        THEN SkipRow
                        ELSE AppendRecord(GenericRecord(code_idx, name_idx, grade_idx, col_texts))
    /\ UNCHANGED <<rpc, is_curriculum, header_cells, name_idx, grade_idx, exam_grades_idx>>
    /\ UNCHANGED <<diff_vars, run_vars, login_vars, solve_vars, fetch_vars, image_vars,
                   session_vars>>

\* return grades, after the last row of a table of two rows or more
ReturnGrades ==
    /\ rpc = "rows"
    /\ row_idx >= 1
    /\ rpc' = "done"
    /\ UNCHANGED <<is_curriculum, header_cells, code_idx, name_idx, grade_idx,
                   exam_grades_idx, cols, row_idx, grades, appended, sources>>
    /\ UNCHANGED <<diff_vars, run_vars, login_vars, solve_vars, fetch_vars, image_vars,
                   session_vars>>

RowsNext ==
    \/ ReadHeader
    \/ ProcessRow
    \/ ReturnGrades

SpecRows == RowsInit /\ [][RowsNext]_vars

\* ======================================================= claims on the diff
Range(seq) == {seq[i] : i \in DOMAIN seq}

Count(seq, e) == Cardinality({i \in DOMAIN seq : seq[i] = e})

Graded(r) == r.grade # ""

\* sub is seq with some elements left out, the others in their order
IsSubseq(sub, seq) ==
    \E f \in [DOMAIN sub -> DOMAIN seq] :
        /\ \A i \in DOMAIN sub : sub[i] = seq[f[i]]
        /\ \A i, j \in DOMAIN sub : i < j => f[i] < f[j]

\* C1 (as claimed): the cache file differs from the file the run started with
\* only when the grade notification of the run was sent successfully; a run
\* whose send failed (returned False or raised) ends with the cache as it was.
C1_CacheReplacedOnlyAfterSend ==
    /\ cache_file # cache_at_start => notify_result = "sent"
    /\ notify_result \in {"failed", "raised"} => cache_file = cache_at_start

\* C2 (as claimed): get_new_grades(S, S) is empty for every snapshot S,
\* repeated course codes included.
C2_DiffOfSelfEmpty ==
    (diff_pc = "done" /\ previous = current) => diff_out = <<>>

\* C3: get_new_grades(P, C) is a subsequence of C whose records all have a
\* non-empty grade; a record of C with an empty grade is never output.
C3_DiffIsGradedSubsequence ==
    diff_pc = "done" =>
        /\ IsSubseq(diff_out, current)
        /\ \A i \in DOMAIN diff_out : Graded(diff_out[i])
        /\ \A i \in DOMAIN current : ~Graded(current[i]) => current[i] \notin Range(diff_out)

\* C3 witness: a diff that kept a record and dropped an ungraded record whose
\* code the previous snapshot holds with a grade.
C3_Witness ==
    /\ diff_pc = "done"
    /\ Len(current) = 2 /\ Len(diff_out) = 1
    /\ \E i \in DOMAIN current : \E j \in DOMAIN previous :
          /\ ~Graded(current[i])
          /\ previous[j].course_code = current[i].course_code
          /\ Graded(previous[j])

\* the codes a snapshot holds with a non-empty grade
GradedCodes(snapshot) == {r.course_code : r \in {x \in Range(snapshot) : Graded(x)}}

\* C4: every graded record of C whose code has no graded record in P is in
\* get_new_grades(P, C); P = [BLM207 ""], C = [BLM207 AA, MAT101 72] gives C.
C4_NewlyGradedReported ==
    diff_pc = "done" =>
        /\ \A i \in DOMAIN current :
              (Graded(current[i]) /\ current[i].course_code \notin GradedCodes(previous))
                  => current[i] \in Range(diff_out)
        /\ ( /\ previous = <<[course_code |-> "BLM207", grade |-> ""]>>
             /\ current = <<[course_code |-> "BLM207", grade |-> "AA"],
                            [course_code |-> "MAT101", grade |-> "72"]>> )
              => diff_out = current

\* C4 witness: the scenario of the specification, after the call.
C4_Witness ==
    /\ diff_pc = "done"
    /\ previous = <<[course_code |-> "BLM207", grade |-> ""]>>
    /\ current = <<[course_code |-> "BLM207", grade |-> "AA"],
                   [course_code |-> "MAT101", grade |-> "72"]>>
    /\ diff_out = current

\* C5 (as claimed): for every record of P with a non-empty grade g, a record of
\* C with the same code is left out when its grade is g and is output when its
\* grade is another non-empty string.
C5_AnyCachedGradeDecides ==
    diff_pc = "done" =>
        \A j \in DOMAIN previous : \A i \in DOMAIN current :
            (Graded(previous[j]) /\ current[i].course_code = previous[j].course_code) =>
                /\ current[i].grade = previous[j].grade => current[i] \notin Range(diff_out)
                /\ (Graded(current[i]) /\ current[i].grade # previous[j].grade)
                      => current[i] \in Range(diff_out)

\* positions of the graded records of a code in a snapshot
GradedAt(snapshot, code) ==
    {j \in DOMAIN snapshot : snapshot[j].course_code = code /\ Graded(snapshot[j])}

\* C5 (amended): with g the grade of the last record of P that has the code and
\* a non-empty grade, a record of C with that code is left out when its grade
\* is exactly g and is output when its grade is any other non-empty string
\* ("72" and "72.0" are different grades).
C5_LastCachedGradeDecides ==
    diff_pc = "done" =>
        \A i \in DOMAIN current :
            LET at == GradedAt(previous, current[i].course_code)
            IN  at # {} =>
                  LET g == previous[Max(at)].grade
                  IN  /\ current[i].grade = g => current[i] \notin Range(diff_out)
                      /\ (Graded(current[i]) /\ current[i].grade # g)
                            => current[i] \in Range(diff_out)

\* C5 witness: the code is cached twice with different grades; the record that
\* repeats the last one is left out and the record "72.0" against "72" is output.
C5_Witness ==
    /\ diff_pc = "done"
    /\ previous = <<[course_code |-> "BLM207", grade |-> "AA"],
                    [course_code |-> "BLM207", grade |-> "72"]>>
    /\ current = <<[course_code |-> "BLM207", grade |-> "72"],
                   [course_code |-> "BLM207", grade |-> "72.0"]>>
    /\ diff_out = <<[course_code |-> "BLM207", grade |-> "72.0"]>>

\* ======================================================== claims on the run
RunEnded == pc \in {"loop", "pending", "stopped", "crashed"} /\ run_log # <<>>

IsWrite(e) == e \in {"write", "write_failed"}

C7_EmptyFetchLeavesCache ==
    ("fetch" \in Range(run_log) /\ current_grades = <<>>) =>
        /\ run_log = <<"read", "fetch">>
        /\ pc \in {"loop", "pending", "stopped"}
        /\ notify_result = "none"
        /\ cache_file = cache_at_start

\* C7 witness: an empty fetch in a run that started with a non-empty cache.
C7_Witness ==
    /\ RunEnded
    /\ run_log = <<"read", "fetch">>
    /\ current_grades = <<>>
    /\ cache_at_start.kind = "json"
    /\ cache_at_start.value.shape = "list"
    /\ cache_at_start.value.items # <<>>
    /\ cache_file = cache_at_start

\* C8 (as claimed): an exception raised in a run is reported by one error alert
\* and never leaves check_for_new_grades.
C8_RunExceptionsContained ==
    /\ propagated # "run"
    /\ (RunEnded /\ exc # "none") => Count(run_log, "alert") = 1

CorruptOrMissing(file) == file.kind # "json" \/ file.value.shape # "list"

\* C9 (as claimed): with a missing or corrupt cache file load_cache returns []
\* without raising, and the run reports every graded record that was fetched.
C9_CorruptCacheIsEmptySnapshot ==
    (CorruptOrMissing(cache_at_start) /\ "read" \in Range(run_log)) =>
        /\ exc # "load"
        /\ cached_grades = JsonList(<<>>)
        /\ "diff" \in Range(run_log) =>
              /\ exc # "diff"
              /\ new_grades = SelectSeq(current_grades, Graded)

\* ====================================================== claims on the login
\* C10: no exception leaves _get_captcha_answer: whatever the element lookup,
\* the screenshot, the vision calls and the OCR sweep do, it returns an answer
\* string or None, an exception in any of them gives None, and after None the
\* attempt fails without the login button being clicked.
C10_CaptchaSolverNeverRaises ==
    /\ ~captcha_raised
    /\ captcha_done => (captcha_answer.is_none \/ captcha_answer.text # <<>>)
    /\ captcha_exc # "none" => (captcha_done /\ captcha_answer.is_none)
    /\ (captcha_done /\ captcha_answer.is_none) =>
          (~submitted /\ lpc \in {"check_answer", "failed"})

\* C10 witness: the vision tier was called and gave no answer, the OCR sweep
\* raised, and the solve returned None to _attempt_login, nothing submitted.
C10_Witness ==
    /\ lpc = "check_answer"
    /\ vision_calls > 0
    /\ captcha_exc = "ocr"
    /\ captcha_done
    /\ captcha_answer.is_none
    /\ ~submitted

\* ============================================ claims on the tiers of a solve
VisionFailures == {"exception", "exhausted", "empty", "digit_free"}

\* C11: within one solve the vision tier comes before the OCR tier: the OCR
\* tier is entered only after the vision tier was skipped or ended without an
\* answer; every failure of the vision tier (an exception, all models failing,
\* an empty or digit-free response) puts the solve at the OCR tier, which then
\* runs, and no exception leaves the solve; an answer of the vision tier is
\* returned without the OCR tier.
C11_VisionTierBeforeOcrTier ==
    /\ ~captcha_raised
    /\ (lpc = "ocr" \/ ocr_ran) => vision_outcome \in VisionFailures \cup {"skipped"}
    /\ (lpc = "ocr" \/ ocr_ran) => (vision_outcome = "skipped" <=> ~gemini_enabled)
    /\ vision_outcome \in VisionFailures => (lpc = "ocr" \/ ocr_ran)
    /\ vision_outcome = "answer" =>
          (~ocr_ran /\ lpc = "check_answer" /\ answer_from = "vision"
           /\ Truthy(captcha_answer))
    /\ (captcha_done /\ captcha_exc = "none" /\ lpc = "check_answer"
        /\ vision_outcome # "answer") => ocr_ran

\* C11 witness: every vision model failed, the OCR tier ran after it and its
\* best reading gave the answer the solve returned.
C11_Witness ==
    /\ vision_outcome = "exhausted"
    /\ ocr_ran
    /\ lpc = "check_answer"
    /\ answer_from = "ocr"
    /\ Truthy(captcha_answer)

\* C18: the vision tier calls the models in their listed order, and it ends
\* without an answer-bearing response only when the list is exhausted: a
\* model that fails or returns an empty response is followed by the next one.
C18_EmptyResponseContinuesSearch ==
    /\ lpc = "vision_call" => (last_model <= model_idx /\ model_idx <= last_model + 1)
    /\ vision_outcome \in {"empty", "exhausted"} => last_model = NumModels

\* C19: a vision model is called again only after a rate-limit failure of its
\* first call, so at most MaxGeminiRetries times, after a wait of 5*k seconds
\* before the k-th retry; any other failure, or a rate-limit failure of the
\* last permitted call, moves on to the next model; one solve makes at most
\* MaxGeminiRetries * NumModels calls, which bounds the tier's run.
C19_RetryOnlyAfterRateLimit ==
    /\ retry_i \in 0..(MaxGeminiRetries - 1)
    /\ retry_i > 0 => (lpc = "vision_call" /\ last_call = "rate_limited"
                       /\ last_wait = 5 * retry_i /\ last_model = model_idx)
    /\ (lpc = "vision_call" /\ last_call = "error") =>
          (retry_i = 0 /\ model_idx = last_model + 1)
    /\ (lpc = "vision_call" /\ last_call = "rate_limited" /\ retry_i = 0) =>
          model_idx = last_model + 1
    /\ lpc = "vision_call" =>
          (/\ model_idx \in 1..NumModels
           /\ vision_calls <= MaxGeminiRetries * (model_idx - 1) + retry_i
           /\ vision_calls >= (model_idx - 1) + retry_i)
    /\ vision_calls <= MaxGeminiRetries * NumModels

\* C19 witness: every model was rate-limited on both of its calls, so the
\* tier ended exhausted after MaxGeminiRetries * NumModels calls.
C19_Witness ==
    /\ vision_outcome = "exhausted"
    /\ vision_calls = MaxGeminiRetries * NumModels

\* ==================================================== claims on the login loop
\* C20: login(max_retries) makes at most max_retries attempts, stops at the
\* first successful one and returns True exactly when an attempt succeeded,
\* with the logged-in flag set; every attempt starts by loading the login
\* page with no captcha answer carried over; there is one 2-second sleep
\* after each failed attempt except the last permitted one.
C20_Invariant ==
    /\ attempt \in 0..max_retries
    /\ logged_in <=> login_result = "true"
    /\ lpc = "done" <=> login_result # "none"
    /\ login_result = "false" => (attempt = max_retries /\ delays = max_retries - 1)
    /\ login_result = "true" => (attempt >= 1 /\ delays = attempt - 1)
    /\ lpc = "login" => delays = (IF attempt < max_retries THEN attempt ELSE attempt - 1)
    /\ lpc \notin {"login", "done"} => delays = attempt - 1
    /\ lpc = "page" => (~captcha_done /\ captcha_answer = NoneStr /\ ~submitted
                        /\ vision_calls = 0 /\ ~ocr_ran)

C20_LoginAttemptsBounded ==
    /\ []C20_Invariant
    /\ [][(attempt' # attempt) => (attempt' = attempt + 1 /\ lpc' = "page")]_vars
    /\ [][(login_result' = "true" /\ login_result # "true") => lpc = "verify"]_vars

\* C20 witness: login returned True on the last permitted attempt of several,
\* after a sleep behind each of the failed ones.
C20_Witness ==
    /\ login_result = "true"
    /\ max_retries = DefaultMaxRetries
    /\ attempt = max_retries
    /\ delays = max_retries - 1

\* =========================================== claims on solve_math_captcha
\* positions at which a maximal digit run of text starts
RunStarts(text) ==
    {i \in DOMAIN text : text[i] \in Digits /\ (i = 1 \/ text[i - 1] \notin Digits)}

\* the maximal digit run of text that starts at position i
RunAt(text, i) ==
    SubSeq(text, i, Max({j \in i..Len(text) : \A k \in i..j : text[k] \in Digits}))

\* the number a digit run denotes in base 10, leading zeros allowed
RECURSIVE Base10(_)
Base10(run) ==
    IF run = <<>> THEN 0
    ELSE DigitVal(Head(run)) * 10 ^ (Len(run) - 1) + Base10(Tail(run))

\* str is the decimal string of the integer n
IsDecimalOf(str, n) ==
    LET digits == IF n < 0 THEN Tail(str) ELSE str
    IN  /\ str # <<>>
        /\ n < 0 => Head(str) = "-"
        /\ digits # <<>>
        /\ \A i \in DOMAIN digits : digits[i] \in Digits
        /\ Len(digits) > 1 => Head(digits) # "0"
        /\ Base10(digits) = (IF n < 0 THEN 0 - n ELSE n)

\* the first two maximal digit runs of text, as numbers
FirstNumber(text) == Base10(RunAt(text, Min(RunStarts(text))))
SecondNumber(text) ==
    Base10(RunAt(text, Min(RunStarts(text) \ {Min(RunStarts(text))})))

\* C12: for every text with at least two maximal digit runs,
\* solve_math_captcha returns the decimal string of (first run) op (second
\* run), the runs read in base 10, where op is '+' if the text contains '+',
\* else '-' if it contains '-', else multiplication if it contains '*', 'x' or
\* 'X', else addition; '61+8=?' gives '69' and '42-5' gives '37'.
C12_TwoRunsAnswer ==
    /\ (solve_pc = "done" /\ Cardinality(RunStarts(solve_text)) >= 2) =>
          LET a == FirstNumber(solve_text)
              b == SecondNumber(solve_text)
              expected ==
                  IF Contains(solve_text, "+") THEN a + b
                  ELSE IF Contains(solve_text, "-") THEN a - b
                  ELSE IF \E c \in {"*", "x", "X"} : Contains(solve_text, c) THEN a * b
                  ELSE a + b
          IN  /\ ~solve_result.is_none
              /\ IsDecimalOf(solve_result.text, expected)
    /\ (solve_pc = "done" /\ solve_text = <<"6", "1", "+", "8", "=", "?">>) =>
          solve_result = Some(<<"6", "9">>)
    /\ (solve_pc = "done" /\ solve_text = <<"4", "2", "-", "5">>) =>
          solve_result = Some(<<"3", "7">>)

\* C12 witness: a text with both '-' and '+' between its two runs was solved
\* as an addition.
C12_Witness ==
    /\ solve_pc = "done"
    /\ solve_text = <<"5", "-", "+", "2">>
    /\ solve_result = Some(<<"7">>)

\* the split positions of a numeral whose two parts are both below 100
Qualifying(run) ==
    {i \in 1..(Len(run) - 1) :
        Base10(SubSeq(run, 1, i)) < 100 /\ Base10(SubSeq(run, i + 1, Len(run))) < 100}

\* C13: for a text with exactly one digit run, solve_math_captcha returns the
\* sum of the two parts of the leftmost split of that numeral whose parts are
\* both below 100 ('7525' gives '100'); it returns None exactly when no split
\* qualifies or the text has no digit run.
C13_SingleRunSplit ==
    solve_pc = "done" =>
       LET starts == RunStarts(solve_text)
           run == RunAt(solve_text, Min(starts))
           i == Min(Qualifying(run))
       IN  /\ starts = {} => solve_result.is_none
           /\ Cardinality(starts) = 1 =>
                 IF Qualifying(run) = {}
                 THEN solve_result.is_none
                 ELSE /\ ~solve_result.is_none
                      /\ IsDecimalOf(solve_result.text,
                                     Base10(SubSeq(run, 1, i))
                                     + Base10(SubSeq(run, i + 1, Len(run))))
           /\ solve_result.is_none =>
                 \/ starts = {}
                 \/ Cardinality(starts) = 1 /\ Qualifying(run) = {}
           /\ solve_text = <<"7", "5", "2", "5">> =>
                 solve_result = Some(<<"1", "0", "0">>)

\* C13 witness: a numeral with two qualifying splits, solved at the left one.
C13_Witness ==
    /\ solve_pc = "done"
    /\ solve_text = <<"=", "0", "2", "5">>
    /\ solve_result = Some(<<"2", "5">>)

\* C13 witness of the other case: a numeral no split of which qualifies.
C13_WitnessNone ==
    /\ solve_pc = "done"
    /\ solve_text = <<"1", "2", "3", "4", "5">>
    /\ solve_result.is_none

\* ================================================ claims on the main loop
\* C14: once a shutdown signal has cleared the running flag no run is started
\* any more; the signal itself touches nothing but the flag, so the run in
\* flight goes on through its steps, the loop is left only from its while
\* test, and a while test that finds the flag cleared ends the loop.
C14_NoRunStartsAfterSignal ==
    /\ [][(pc' = "load" /\ pc # "load") => running]_vars
    /\ [][(running' # running) =>
             (~running' /\ UNCHANGED <<pc, cache_file, cached_grades, current_grades,
                                       new_grades, notify_result, exc, run_log>>)]_vars
    /\ [][(pc' = "stopped" /\ pc # "stopped") => (pc = "loop" /\ ~running)]_vars
    /\ [][(pc = "loop" /\ ~running) => pc' = "stopped"]_vars

\* C17: when the run before this one sent its notification and wrote the
\* cache, and this run fetched the very snapshot that run cached, this run
\* finds no new or changed grade, sends no notification and leaves the cache
\* file as it was.
C17_SameSnapshotNotNotifiedAgain ==
    (/\ prev_sent_written
     /\ "diff" \in Range(run_log)
     /\ cache_at_start = FileJson(JsonList(current_grades))) =>
        /\ new_grades = <<>>
        /\ notify_result = "none"
        /\ "notify" \notin Range(run_log)
        /\ cache_file = cache_at_start

\* ================================================== claims on fetch_grades
\* no table of the page passes the primary search or a fallback
NoTablePasses(tables) ==
    \A i \in DOMAIN tables :
        \/ tables[i].rows < 2
        \/ /\ ~tables[i].keyword
           /\ ~tables[i].code_pattern
           /\ tables[i].rows < 5

\* C15: fetch_grades never raises; it returns the empty list when no table of
\* the page passes the primary search or a fallback, and whenever an
\* exception occurs during navigation, table search or parsing.
C15_FetchReturnsEmptyNotRaises ==
    /\ ~fetch_raised
    /\ fpc # "done" => fetch_result = <<>>
    /\ (fpc = "done" /\ NoTablePasses(page)) => fetch_result = <<>>
    /\ fetch_exc # "none" => (fpc = "done" /\ fetch_result = <<>>)

\* C15 witness: the page was reached and has tables, none of which passes;
\* fetch_grades returned the empty list without any exception.
C15_Witness ==
    /\ fpc = "done"
    /\ Len(page) = MaxTables
    /\ NoTablePasses(page)
    /\ \E i \in DOMAIN page : page[i].rows >= 2
    /\ fetch_exc = "none"
    /\ fetch_result = <<>>
    /\ logged_in

\* C15 witness of the other case: a table was chosen and parsing it raised.
C15_WitnessException ==
    /\ fpc = "done"
    /\ main_table # 0
    /\ fetch_exc = "parse"
    /\ fetch_result = <<>>

\* --------------------------------------------- claims on the table search
\* the table has the keyword in its text and two rows or more
PassesPrimary(table) == table.keyword /\ table.rows >= 2

\* C27: the primary search selects a table that has a keyword and two rows or
\* more, and no such table is found by an earlier predicate, or by the same
\* predicate earlier in the document; whenever the page has such a table the
\* search selects one.
C27_PrimarySearchOrder ==
    (fpc = "parse" /\ \E i \in DOMAIN page : PassesPrimary(page[i])) =>
        /\ main_table \in DOMAIN page
        /\ PassesPrimary(page[main_table])
        /\ \A j \in DOMAIN page : PassesPrimary(page[j]) =>
              \/ page[main_table].xpath < page[j].xpath
              \/ page[main_table].xpath = page[j].xpath /\ main_table <= j

\* C27 witness: the selected table is matched by the first predicate and
\* stands after a table with keyword and rows that only the last predicate
\* matches.
C27_Witness ==
    /\ fpc = "parse"
    /\ main_table = 2
    /\ PassesPrimary(page[1]) /\ page[1].xpath = NumXpaths
    /\ PassesPrimary(page[2]) /\ page[2].xpath = 1

\* C28: when no table passes the primary search, the selected table is the
\* largest table with three rows or more if the page has one, and only
\* otherwise a table that matches the course-code pattern.
C28_LargestTableFirst ==
    (fpc = "parse" /\ \A i \in DOMAIN page : ~PassesPrimary(page[i])) =>
        /\ main_table \in DOMAIN page
        /\ IF \E i \in DOMAIN page : page[i].rows >= 3
           THEN /\ page[main_table].rows >= 3
                /\ \A j \in DOMAIN page : page[j].rows <= page[main_table].rows
           ELSE page[main_table].code_pattern

\* C28 as the code has it: when no table passes the primary search, the
\* selected table is the first one in document order that has two rows or
\* more and either matches the course-code pattern or has five rows or more.
C28_FirstAcceptedTable ==
    (fpc = "parse" /\ \A i \in DOMAIN page : ~PassesPrimary(page[i])) =>
        /\ main_table \in DOMAIN page
        /\ page[main_table].rows >= 2
        /\ page[main_table].code_pattern \/ page[main_table].rows >= 5
        /\ \A j \in 1..(main_table - 1) :
              \/ page[j].rows < 2
              \/ ~page[j].code_pattern /\ page[j].rows < 5

\* C28 witness: a table of two rows with the course-code pattern is selected
\* although a larger table without keyword follows it.
C28_Witness ==
    /\ fpc = "parse"
    /\ \A i \in DOMAIN page : ~PassesPrimary(page[i])
    /\ main_table = 1
    /\ page[1].rows = 2 /\ page[1].code_pattern
    /\ Len(page) >= 2 /\ page[2].rows = 5

\* C28 witness of a table left out: a table of three rows without the pattern
\* is passed over and the table after it is selected.
C28_WitnessSkipped ==
    /\ fpc = "parse"
    /\ \A i \in DOMAIN page : ~PassesPrimary(page[i])
    /\ main_table = 2
    /\ page[1].rows = 3

\* ================================= claims on _preprocess_captcha_image
\* C16: for every input image, threshold and value of aggressive the returned
\* image is ScaleFactor times as wide and as high as the input, each of its
\* pixels is 0 or 255, and with aggressive off a pixel is 255 exactly where
\* the upscaled luminance is above the threshold; the input image is the one
\* that was passed in.
C16_Invariant ==
    ipc = "done" =>
        /\ image.w = 4 * image_in.w
        /\ image.h = 4 * image_in.h
        /\ DOMAIN image.px = Pixels(4 * image_in.w, 4 * image_in.h)
        /\ \A p \in DOMAIN image.px : image.px[p] \in {0, 255}
        /\ ~aggressive =>
              /\ DOMAIN image_upscaled.px = DOMAIN image.px
              /\ \A p \in DOMAIN image.px :
                    image.px[p] = 255 <=> image_upscaled.px[p] > threshold

C16_PreprocessedImageIsBinaryUpscale ==
    /\ []C16_Invariant
    /\ [][image_in' = image_in]_vars

\* C16 witness: a gray image with a red dot, binarised at the gray level
\* without the aggressive filters: black all over, the flat gray included.
C16_Witness ==
    /\ ipc = "done"
    /\ ~aggressive
    /\ threshold = 128
    /\ image_in.w = MaxSide /\ image_in.h = MaxSide
    /\ \E p \in DOMAIN image_in.px : image_in.px[p] = <<255, 0, 0>>
    /\ \E p \in DOMAIN image_in.px : image_in.px[p] = <<128, 128, 128>>
    /\ \A p \in DOMAIN image_upscaled.px : image_upscaled.px[p] \in {76, 128}
    /\ \A p \in DOMAIN image.px : image.px[p] = 0

\* C16 witness with the filters: the aggressive mode returned an image that
\* is not the plain threshold of the upscaled one.
C16_WitnessAggressive ==
    /\ ipc = "done"
    /\ aggressive
    /\ \E p \in DOMAIN image.px :
          image.px[p] # (IF image_upscaled.px[p] > threshold THEN 255 ELSE 0)

\* ======================================= claims on the answer of a solve
\* the cleaned reading that comes first in the sweep among those of the
\* highest score
FirstBestReading(raw_texts) ==
    LET valid == {i \in DOMAIN raw_texts : CleanReading(raw_texts[i]) \in OcrResults(raw_texts)}
        top == {i \in valid : \A j \in valid :
                   score_result(CleanReading(raw_texts[j]))
                       <= score_result(CleanReading(raw_texts[i]))}
    IN  CleanReading(raw_texts[Min(top)])

\* C22: the reading that the OCR tier passes to solve_math_captcha has the
\* highest score of the collected readings, and among several readings of
\* that score it is the one the sweep met first; so the answer of the OCR
\* tier is the resolution of that reading.
C22_TiesBrokenByEncounterOrder ==
    (lpc = "check_answer" /\ answer_from = "ocr") =>
        captcha_answer = solve_math_captcha(FirstBestReading(ocr_raw))

\* str consists of decimal digits only and is not empty
DigitsOnly(str) == str # <<>> /\ \A i \in DOMAIN str : str[i] \in Digits

IsDecimalNumeral(str) ==
    LET negative == str # <<>> /\ Head(str) = "-"
        digits == IF negative THEN Tail(str) ELSE str
    IN  /\ DigitsOnly(digits)
        /\ Len(digits) > 1 => Head(digits) # "0"
        /\ negative => digits # <<"0">>

C21_ClosedSessionIsNotLoggedIn ==
    /\ spc = "try" => logged_in
    /\ closed => ~logged_in
    /\ (closed /\ caller = "fetch") => spc = "attempt"

\* ================================================ claims on the row loop
\* the stripped texts of the cells of the row processed last, and its record
Cells == [i \in DOMAIN cols |-> Strip(cols[i])]
LastRecord == grades[Len(grades)]

\* a generic row has been processed and has a record
GenericRecordAppended == rpc = "rows" /\ ~is_curriculum /\ row_idx >= 1 /\ appended

\* the header names a column of the role
HeaderNames(role) == \E i \in DOMAIN header_cells : HeaderRole(Lower(Strip(header_cells[i]))) = role

\* C23: in the generic layout with a grade column named by the header, the
\* grade of a record is the text of the cell of its row in that column, empty
\* for an empty cell; no other cell gives the grade.
C23_GradeIsTheCellOfTheGradeColumn ==
    (GenericRecordAppended /\ grade_idx # NoIndex /\ grade_idx < Len(cols)) =>
        LastRecord.grade = Cells[grade_idx + 1]

\* text written with digits and at most one point or comma denotes a number
\* from 0 to 100
DenotesGradeNumber(text) ==
    LET marks == {i \in DOMAIN text : text[i] \in {".", ","}}
        whole == IF marks = {} THEN text ELSE SubSeq(text, 1, Min(marks) - 1)
        fraction == IF marks = {} THEN <<>> ELSE SubSeq(text, Min(marks) + 1, Len(text))
    IN  /\ Cardinality(marks) <= 1
        /\ whole \o fraction # <<>>
        /\ \A i \in DOMAIN (whole \o fraction) : (whole \o fraction)[i] \in Digits
        /\ Base10(whole) < 100 \/ (Base10(whole) = 100 /\ Base10(fraction) = 0)

C24_WitnessThirdCell ==
    /\ GenericRecordAppended
    /\ ~HeaderNames("grade")
    /\ Cells[3] = <<"8", "5">>
    /\ LastRecord.grade = <<>>

\* the text has length 5 to 10 and holds a letter and a digit
CodeLike(text) ==
    /\ Len(text) \in 5..10
    /\ \E i \in DOMAIN text : IsAlpha(text[i])
    /\ \E i \in DOMAIN text : text[i] \in Digits

\* the positions among the first four cells whose text is code-like
CodeLikeCells(cells) == {i \in DOMAIN cells : i <= 4 /\ CodeLike(cells[i])}

\* C25 as stated: in the generic layout without a code column in the header,
\* the course code of a row is the first code-like cell among its first four
\* cells, and a row without such a cell yields no record.
C25_CodeGuessedForEveryRow ==
    (rpc = "rows" /\ ~is_curriculum /\ row_idx >= 1 /\ ~HeaderNames("code")
        /\ Len(cols) >= MinGenericCols) =>
        IF CodeLikeCells(Cells) = {} THEN ~appended
        ELSE appended /\ LastRecord.course_code = Cells[Min(CodeLikeCells(Cells))]

\* C25 as the code has it: without a code column in the header, a row is
\* searched for its first code-like cell among the first four only while no
\* earlier row had one (or the row is too short for the column found); the
\* position found is the code column of all later rows, whose cell in it is
\* the course code whatever its text, and an empty cell there yields no record.
C25_GuessedColumnPersists ==
    [][(rpc = "rows" /\ rpc' = "rows" /\ ~is_curriculum /\ ~HeaderNames("code")
            /\ Len(cols') >= MinGenericCols) =>
        LET cells == [i \in DOMAIN cols' |-> Strip(cols'[i])]
            code == IF appended' THEN grades'[Len(grades')].course_code ELSE <<>>
        IN  IF code_idx # NoIndex /\ code_idx < Len(cells)
            THEN /\ code_idx' = code_idx
                 /\ code = cells[code_idx + 1]
                 /\ appended' <=> cells[code_idx + 1] # <<>>
            ELSE IF CodeLikeCells(cells) = {}
            THEN /\ code_idx' = code_idx
                 /\ ~appended'
            ELSE /\ code_idx' = Min(CodeLikeCells(cells)) - 1
                 /\ appended'
                 /\ code = cells[code_idx' + 1]]_vars

\* C25 witness: the first row had its code in the second cell; the second row
\* has a code-like first cell, and its record has the text of the second cell
\* as course code.
C25_Witness ==
    /\ GenericRecordAppended
    /\ ~HeaderNames("code")
    /\ row_idx = 2
    /\ code_idx = 1
    /\ CodeLike(Cells[1])
    /\ ~CodeLike(Cells[2])
    /\ LastRecord.course_code = Cells[2]

\* C26: a data row yields a record iff it has the minimum number of cells of
\* the layout and a course code, whatever its grade; every record has a
\* non-empty course_code; the records are in the order of their rows.
C26_RowAdmission ==
    (rpc = "rows" /\ row_idx >= 1) =>
        /\ IF is_curriculum
           THEN appended <=> (Len(cols) >= 7 /\ Cells[1] # <<>>)
           ELSE appended => Len(cols) >= 3
        /\ \A i \in DOMAIN grades : grades[i].course_code # <<>>
        /\ \A i, j \in DOMAIN sources : i < j => sources[i] < sources[j]

\* the last whitespace-delimited token of a stripped text
TokenAtEnd(text) ==
    LET starts == {i \in DOMAIN text : \A j \in i..Len(text) : text[j] \notin Whitespace}
    IN  IF starts = {} THEN <<>> ELSE SubSeq(text, Min(starts), Len(text))

\* C29: in the curriculum layout course_code and course_name are the texts of
\* the first two cells; grade is the two-uppercase-letter token at the end of
\* the text of the last cell if there is one, else the last token if it is a
\* letter grade, else empty; status is 'Final' exactly when grade is not empty.
C29_CurriculumRecord ==
    (rpc = "rows" /\ is_curriculum /\ row_idx >= 1 /\ appended) =>
        LET token == TokenAtEnd(Cells[Len(Cells)])
        IN  /\ LastRecord.course_code = Cells[1]
            /\ LastRecord.course_name = Cells[2]
            /\ LastRecord.grade =
                  IF Len(token) = 2 /\ IsUpper(token[1]) /\ IsUpper(token[2]) THEN token
                  ELSE IF token \in letter_grades THEN token
                  ELSE <<>>
            /\ LastRecord.status = "Final" <=> LastRecord.grade # <<>>
====
